---------------------------- MODULE Spec2Model ----------------------------
(***************************************************************************)
(* Page layer of the Parquet metadata visualizer                           *)
(* (src/src/lib/parquet-parsing-core.ts).                                  *)
(*                                                                         *)
(*   Spec       parseParquetPage: the sequential page walk of one chunk.   *)
(*   SpecRange  the same walk, on offsets near Number.MAX_SAFE_INTEGER.    *)
(*   SpecChunk  parseColumnChunkPageSizes: the walk, then its page loop.    *)
(*   SpecSizes  calls of parsePageDataSizes.                               *)
(*   SpecCodec  calls of decompressPageData.                               *)
(*   SpecRuns   calls of parsePageDataSizes on RLE runs of levels.         *)
(*   SpecLevels calls of calculateMaxLevels.                               *)
(*   SpecTwice  three calls of parseParquetPage in a row.                  *)
(*   SpecPar    the page loop, run again as one task per page.             *)
(*   SpecDecode calls of decodeRleBitPackedLevels.                         *)
(*   SpecView   PagesView: selections and page loads.                      *)
(*   SpecNode   the file readers of parquet-parsing-node.ts.               *)
(*                                                                         *)
(* JavaScript values that may be undefined (or NaN) are options: <<>> is   *)
(* undefined / NaN, <<v>> is the value v.  Strings that may be undefined   *)
(* use the string "undefined".                                             *)
(***************************************************************************)
EXTENDS Integers, Sequences, FiniteSets, TLC

None == <<>>
Some(v) == <<v>>
IsDef(x) == x # <<>>
Val(x) == x[1]

(***************************************************************************)
(* Bounds of the model.                                                    *)
(***************************************************************************)
\* Number.MAX_SAFE_INTEGER is 2^53 - 1; the model scales the mantissa width.
SafeBits == 4
\* Largest total_compressed_size of a chunk that is walked.
MaxChunk == 3
\* Largest number of bytes one page header occupies.
MaxHeaderSize == 2
\* The walk is cut after this many recorded pages.
MaxPages == 3

RECURSIVE Pow2(_)
Pow2(n) == IF n = 0 THEN 1 ELSE 2 * Pow2(n - 1)

\* Number.MAX_SAFE_INTEGER, at the model's mantissa width.
MAX_SAFE_INTEGER == Pow2(SafeBits) - 1

\* An IEEE double holds every integer up to 2^SafeBits; above it (and below
\* 2^(SafeBits+1)) only the even ones, the nearest with ties to the even
\* mantissa.  This is the value of a Number addition.
RoundDouble(x) ==
  IF x <= Pow2(SafeBits) THEN x
  ELSE IF x % 2 = 0 THEN x
  ELSE IF (x + 1) % 4 = 0 THEN x + 1 ELSE x - 1

(***************************************************************************)
(* The page header: hyparquet's thrift struct, and its projection.         *)
(***************************************************************************)
\* hyparquet/src/constants.js PageType, indexed by the thrift enum value.
PageTypeName(f) ==
  IF ~IsDef(f) THEN "undefined"
  ELSE CASE Val(f) = 0 -> "DATA_PAGE"
         [] Val(f) = 1 -> "INDEX_PAGE"
         [] Val(f) = 2 -> "DICTIONARY_PAGE"
         [] Val(f) = 3 -> "DATA_PAGE_V2"
         [] OTHER -> "undefined"

PageTypes == {"DATA_PAGE", "INDEX_PAGE", "DICTIONARY_PAGE", "DATA_PAGE_V2"}

\* field_5 of the struct: a DataPageHeader with num_values nv.
ThriftV1(nv) == [field_1 |-> Some(nv)]
\* field_7 of the struct: a DictionaryPageHeader.
ThriftDict(nv) == [field_1 |-> Some(nv)]
\* field_8 of the struct: a DataPageHeaderV2; nn and ic are options.
ThriftV2(nv, nn, dl, rl, ic) ==
  [field_1 |-> Some(nv), field_2 |-> nn, field_5 |-> Some(dl),
   field_6 |-> Some(rl), field_7 |-> ic]

\* What deserializeTCompactProtocol hands back for one header.
Thrift(t, u, c, v1, dict, v2) ==
  [field_1 |-> t, field_2 |-> u, field_3 |-> c,
   field_5 |-> v1, field_7 |-> dict, field_8 |-> v2]

\* Headers that differ in the declared compressed_page_size (an i32, zigzag
\* encoded on the wire, so it may be negative) or lack it.
SizeHeaders ==
  { Thrift(Some(0), Some(1), c, Some(ThriftV1(1)), None, None) :
      c \in {None} \cup { Some(n) : n \in -2 .. 2 } }

\* Headers that differ in the page type and in the header variant carried.
ShapeHeaders ==
  { Thrift(Some(2), Some(1), Some(1), None, Some(ThriftDict(1)), None),
    Thrift(Some(1), Some(1), Some(1), None, None, None),
    Thrift(Some(3), Some(1), Some(1), None, None,
           Some(ThriftV2(1, Some(0), 0, 0, Some(FALSE)))),
    Thrift(Some(3), Some(1), Some(1), None, None,
           Some(ThriftV2(1, None, 0, 0, None))),
    Thrift(None, None, None, None, None, None),
    Thrift(Some(9), Some(1), Some(1), Some(ThriftV1(1)), None, None),
    Thrift(Some(0), None, Some(1), Some(ThriftV1(1)), None, None) }

ThriftHeaders == SizeHeaders \cup ShapeHeaders

\* function parquetHeader
parquetHeader(header) ==
  [ type |-> PageTypeName(header.field_1),
    uncompressed_page_size |-> header.field_2,
    compressed_page_size |-> header.field_3,
    data_page_header |->
      IF IsDef(header.field_5)
      THEN Some([num_values |-> Val(header.field_5).field_1])
      ELSE None,
    dictionary_page_header |->
      IF IsDef(header.field_7)
      THEN Some([num_values |-> Val(header.field_7).field_1])
      ELSE None,
    data_page_header_v2 |->
      IF IsDef(header.field_8)
      THEN Some([num_values |-> Val(header.field_8).field_1,
                 num_nulls |-> Val(header.field_8).field_2,
                 definition_levels_byte_length |-> Val(header.field_8).field_5,
                 repetition_levels_byte_length |-> Val(header.field_8).field_6,
                 is_compressed |->
                   IF ~IsDef(Val(header.field_8).field_7) THEN TRUE
                   ELSE Val(Val(header.field_8).field_7)])
      ELSE None ]

(***************************************************************************)
(* JavaScript's 32-bit integer operators, on values in -2^31 .. 2^31 - 1.  *)
(***************************************************************************)
Int31Max == 2147483647

\* The low 31 bits of an int32, and its sign bit.
Low31(x) == IF x >= 0 THEN x ELSE (x + Int31Max) + 1
SignBit(x) == IF x >= 0 THEN 0 ELSE 1
FromParts(low, sign) == IF sign = 0 THEN low ELSE (low - Int31Max) - 1

RECURSIVE OrNat(_, _)
OrNat(a, b) ==
  IF a = 0 THEN b
  ELSE IF b = 0 THEN a
  ELSE (IF a % 2 = 1 \/ b % 2 = 1 THEN 1 ELSE 0)
         + 2 * OrNat(a \div 2, b \div 2)

RECURSIVE AndNat(_, _)
AndNat(a, b) ==
  IF a = 0 \/ b = 0 THEN 0
  ELSE (IF a % 2 = 1 /\ b % 2 = 1 THEN 1 ELSE 0)
         + 2 * AndNat(a \div 2, b \div 2)

\* a | b
Or32(a, b) ==
  FromParts(OrNat(Low31(a), Low31(b)),
            IF SignBit(a) = 1 \/ SignBit(b) = 1 THEN 1 ELSE 0)

\* a & b
And32(a, b) ==
  FromParts(AndNat(Low31(a), Low31(b)),
            IF SignBit(a) = 1 /\ SignBit(b) = 1 THEN 1 ELSE 0)

\* a << n for 0 <= a < 2^31: the shift count is taken modulo 32 and the
\* bits shifted past bit 31 are lost; bit 31 is the sign.
Shl32(a, n) ==
  LET k == n % 32
  IN  IF k = 0 THEN a
      ELSE IF k = 31 THEN (IF a % 2 = 1 THEN (-Int31Max) - 1 ELSE 0)
      ELSE LET kept == IF k = 1 THEN a ELSE a % Pow2(32 - k)
           IN  IF kept >= Pow2(31 - k)
               THEN (kept - Pow2(31 - k)) * Pow2(k) + ((-Int31Max) - 1)
               ELSE kept * Pow2(k)

\* a >>> n for 1 <= n % 32: the unsigned value of a, shifted right.
Shr32U(a, n) ==
  LET k == n % 32
  IN  IF k = 0 THEN a
      ELSE (Low31(a) \div Pow2(k))
             + (IF SignBit(a) = 1 THEN Pow2(31 - k) ELSE 0)

\* a >> 1
Sar1(a) == (a - (a % 2)) \div 2

(***************************************************************************)
(* The DataView over a page payload: a sequence of bytes, 0-based offsets. *)
(***************************************************************************)
InView(view, off) == off >= 0 /\ off < Len(view)

\* view.getUint8(off); the caller checks InView (a RangeError otherwise).
GetUint8(view, off) == view[off + 1]

\* view.getUint32(off, true) throws unless off .. off+3 are in the view.
CanGetUint32(view, off) == off >= 0 /\ off + 4 <= Len(view)

GetUint32(view, off) ==
  view[off + 1] + 256 * view[off + 2] + 65536 * view[off + 3]
    + 16777216 * view[off + 4]

(***************************************************************************)
(* readVarInt, decodeRleBitPackedLevels, countNullsFromDefinitionLevels    *)
(***************************************************************************)
RECURSIVE readVarIntLoop(_, _, _, _)
\* The do-while of readVarInt.  [threw |-> TRUE] is getUint8's RangeError.
readVarIntLoop(view, offset, value, shift) ==
  IF ~InView(view, offset) THEN [threw |-> TRUE]
  ELSE LET byte == GetUint8(view, offset)
           v == Or32(value, Shl32(And32(byte, 127), shift))
       IN  IF And32(byte, 128) # 0
           THEN readVarIntLoop(view, offset + 1, v, shift + 7)
           ELSE [threw |-> FALSE, value |-> v, offset |-> offset + 1]

\* function readVarInt
readVarInt(view, offset) == readVarIntLoop(view, offset, 0, 0)

\* Math.ceil(Math.log2(maxLevel + 1))
RECURSIVE CeilLog2(_)
CeilLog2(n) == IF n <= 1 THEN 0 ELSE 1 + CeilLog2((n + 1) \div 2)

BitWidth(maxLevel) == CeilLog2(maxLevel + 1)

\* The for loop of a bit-packed run (lines 634-648): i values done so far.
RECURSIVE BitPackedLoop(_, _, _, _, _, _, _, _, _)
BitPackedLoop(view, cur, endOff, bitWidth, numValues, count, i, acc, result) ==
  \* acc = <<data, bitsInData>>
  IF ~(i < count /\ Len(result) < numValues)
  THEN [threw |-> FALSE, offset |-> cur, result |-> result]
  ELSE IF acc[2] < bitWidth /\ cur < endOff
    THEN \* load one more byte
         IF ~InView(view, cur) THEN [threw |-> TRUE]
         ELSE BitPackedLoop(view, cur + 1, endOff, bitWidth, numValues, count, i,
                <<Or32(acc[1], Shl32(GetUint8(view, cur), acc[2])),
                  acc[2] + 8>>,
                result)
    ELSE BitPackedLoop(view, cur, endOff, bitWidth, numValues, count, i + 1,
           <<Shr32U(acc[1], bitWidth), acc[2] - bitWidth>>,
           Append(result, And32(acc[1], Shl32(1, bitWidth) - 1)))

\* The value bytes of an RLE run (lines 655-658).
RECURSIVE RleValueLoop(_, _, _, _, _, _)
RleValueLoop(view, cur, endOff, byteWidth, i, value) ==
  IF ~(i < byteWidth /\ cur < endOff)
  THEN [threw |-> FALSE, offset |-> cur, value |-> value]
  ELSE IF ~InView(view, cur) THEN [threw |-> TRUE]
  ELSE RleValueLoop(view, cur + 1, endOff, byteWidth, i + 1,
         Or32(value, Shl32(GetUint8(view, cur), i * 8)))

\* Lines 661-663: push value until count values or numValues are there.
Repeat(result, value, count, numValues) ==
  LET room == numValues - Len(result)
      pushed == IF count < room THEN count ELSE room
  IN  IF pushed > 0 THEN result \o [i \in 1 .. pushed |-> value] ELSE result

RECURSIVE DecodeLoop(_, _, _, _, _, _)
\* The while loop of decodeRleBitPackedLevels (lines 620-665).
DecodeLoop(view, cur, endOff, bitWidth, numValues, result) ==
  IF ~(Len(result) < numValues /\ cur < endOff)
  THEN [threw |-> FALSE, result |-> result, offset |-> cur]
  ELSE LET h == readVarInt(view, cur)
       IN  IF h.threw THEN [threw |-> TRUE]
           ELSE IF And32(h.value, 1) # 0
             THEN LET run == BitPackedLoop(view, h.offset, endOff, bitWidth,
                               numValues, Shl32(Low31(Sar1(h.value)), 3), 0,
                               <<0, 0>>, result)
                  IN  IF run.threw THEN [threw |-> TRUE]
                      ELSE DecodeLoop(view, run.offset, endOff, bitWidth,
                                      numValues, run.result)
             ELSE LET v == RleValueLoop(view, h.offset, endOff,
                                        (bitWidth + 7) \div 8, 0, 0)
                  IN  IF v.threw THEN [threw |-> TRUE]
                      ELSE DecodeLoop(view, v.offset, endOff, bitWidth,
                             numValues,
                             Repeat(result, v.value, Shr32U(h.value, 1),
                                    numValues))

\* function decodeRleBitPackedLevels.  offset is no part of what it
\* returns: it is currentOffset when the loop ends, one past the last byte
\* read.
decodeRleBitPackedLevels(view, offset, length, bitWidth, numValues) ==
  DecodeLoop(view, offset, offset + length, bitWidth, numValues, <<>>)

\* A count of the levels that are 0.
countNullsFromDefinitionLevels_ZeroOnly(definitionLevels, maxDefinitionLevel) ==
  Cardinality({ i \in 1 .. Len(definitionLevels) : definitionLevels[i] = 0 })

\* function countNullsFromDefinitionLevels
countNullsFromDefinitionLevels(definitionLevels, maxDefinitionLevel) ==
  Cardinality({ i \in 1 .. Len(definitionLevels) :
                  definitionLevels[i] < maxDefinitionLevel })

\* A size that leaves the 4 bytes of the length prefix out.
readRleBitPackedLevelSize_DataOnly(view, offset, maxLevel) ==
  IF maxLevel = 0 THEN [threw |-> FALSE, size |-> 0]
  ELSE IF ~CanGetUint32(view, offset) THEN [threw |-> TRUE]
  ELSE [threw |-> FALSE, size |-> GetUint32(view, offset)]

\* function readRleBitPackedLevelSize
readRleBitPackedLevelSize(view, offset, maxLevel) ==
  IF maxLevel = 0 THEN [threw |-> FALSE, size |-> 0]
  ELSE IF ~CanGetUint32(view, offset) THEN [threw |-> TRUE]
  ELSE [threw |-> FALSE, size |-> 4 + GetUint32(view, offset)]

\* Lines 485-498: the PageInfo pushed for a decoded header.
PageInfoOf(pn, pageHeader, headerSize, pageStartOffset, off, thrift) ==
  [ pageNumber |-> pn,
    pageType |-> pageHeader.type,
    offset |-> pageStartOffset,
    compressedSize |-> pageHeader.compressed_page_size,
    uncompressedSize |-> pageHeader.uncompressed_page_size,
    headerSize |-> headerSize,
    numValues |->
      IF IsDef(pageHeader.data_page_header)
        THEN Val(pageHeader.data_page_header).num_values
      ELSE IF IsDef(pageHeader.data_page_header_v2)
        THEN Val(pageHeader.data_page_header_v2).num_values
      ELSE IF IsDef(pageHeader.dictionary_page_header)
        THEN Val(pageHeader.dictionary_page_header).num_values
      ELSE None,
    dataPageHeader |-> pageHeader.data_page_header,
    dictionaryPageHeader |-> pageHeader.dictionary_page_header,
    dataPageHeaderV2 |-> pageHeader.data_page_header_v2,
    \* not fields of PageInfo: where in the buffer the header was, and the
    \* struct it was decoded from
    bufferOffset |-> off,
    thrift |-> thrift ]

(***************************************************************************)
(* parsePageDataSizes                                                      *)
(***************************************************************************)
\* Line 896: definition levels are decoded when the block is under 1 kB.
NullCountThreshold == 1024

\* A V2 branch whose valuesSize leaves the repetition levels in.
SizesV2_ValuesWithRepetition(header, byteLength) ==
  [ repetitionLevelsSize |-> Val(header.repetition_levels_byte_length),
    definitionLevelsSize |-> Val(header.definition_levels_byte_length),
    valuesSize |-> byteLength - Val(header.definition_levels_byte_length),
    nullCount |-> header.num_nulls, decoded |-> FALSE ]

\* A V2 branch that does not look at num_nulls.
SizesV2_DropsNumNulls(header, byteLength) ==
  [ repetitionLevelsSize |-> Val(header.repetition_levels_byte_length),
    definitionLevelsSize |-> Val(header.definition_levels_byte_length),
    valuesSize |-> byteLength - Val(header.repetition_levels_byte_length)
                     - Val(header.definition_levels_byte_length),
    nullCount |-> None, decoded |-> FALSE ]

\* Lines 849-864: the V2 branch.
SizesV2(header, byteLength) ==
  [ repetitionLevelsSize |-> Val(header.repetition_levels_byte_length),
    definitionLevelsSize |-> Val(header.definition_levels_byte_length),
    valuesSize |-> byteLength - Val(header.repetition_levels_byte_length)
                     - Val(header.definition_levels_byte_length),
    nullCount |-> header.num_nulls, decoded |-> FALSE ]

\* A test that also decodes a block of exactly the threshold.
DecodesLevels_Inclusive(definitionLevelsSize) ==
  definitionLevelsSize > 0 /\ definitionLevelsSize <= NullCountThreshold

\* Line 896: the definition levels are decoded.
DecodesLevels(definitionLevelsSize) ==
  definitionLevelsSize > 0 /\ definitionLevelsSize < NullCountThreshold

\* Lines 895-917: the null count of a V1 page, None when it is not computed
\* or the decoder throws.
NullCountV1(view, definitionLevelsOffset, definitionLevelsSize, maxDefinitionLevel, numValues) ==
  IF DecodesLevels(definitionLevelsSize)
  THEN LET levelDataLength == GetUint32(view, definitionLevelsOffset)
           bitWidth == BitWidth(maxDefinitionLevel)
           definitionLevels ==
             decodeRleBitPackedLevels(view, definitionLevelsOffset + 4,
                                      levelDataLength, bitWidth, numValues)
       IN  IF definitionLevels.threw THEN None
           ELSE Some(countNullsFromDefinitionLevels(definitionLevels.result,
                                                    maxDefinitionLevel))
  ELSE None

\* A V1 branch whose valuesSize leaves the repetition levels out.
SizesV1_ForgetsRepetition(header, view, maxRepetitionLevel, maxDefinitionLevel) ==
  LET rep == readRleBitPackedLevelSize(view, 0,
               IF maxRepetitionLevel > 0 THEN maxRepetitionLevel ELSE 0)
  IN  IF rep.threw THEN [threw |-> TRUE]
      ELSE LET def == readRleBitPackedLevelSize(view, rep.size,
                        IF maxDefinitionLevel > 0 THEN maxDefinitionLevel
                        ELSE 0)
           IN  IF def.threw THEN [threw |-> TRUE]
               ELSE [ threw |-> FALSE,
                      repetitionLevelsSize |-> rep.size,
                      definitionLevelsSize |-> def.size,
                      valuesSize |-> Len(view) - def.size,
                      nullCount |-> None, decoded |-> FALSE ]

\* Lines 865-922: the V1 branch; [threw |-> TRUE] when a length prefix
\* cannot be read (getUint32 throws a RangeError nobody catches).
SizesV1(header, view, maxRepetitionLevel, maxDefinitionLevel) ==
  LET numValues == Val(header.num_values)
      rep == readRleBitPackedLevelSize(view, 0,
               IF maxRepetitionLevel > 0 THEN maxRepetitionLevel ELSE 0)
  IN  IF rep.threw THEN [threw |-> TRUE]
      ELSE LET def == readRleBitPackedLevelSize(view, rep.size,
                        IF maxDefinitionLevel > 0 THEN maxDefinitionLevel
                        ELSE 0)
           IN  IF def.threw THEN [threw |-> TRUE]
               ELSE [ threw |-> FALSE,
                      repetitionLevelsSize |-> rep.size,
                      definitionLevelsSize |-> def.size,
                      valuesSize |-> Len(view) - (rep.size + def.size),
                      nullCount |->
                        IF maxDefinitionLevel > 0
                        THEN NullCountV1(view, rep.size, def.size,
                                         maxDefinitionLevel, numValues)
                        ELSE None,
                      decoded |-> maxDefinitionLevel > 0
                                    /\ DecodesLevels(def.size) ]

\* Lines 936-951: the PageSizeBreakdown returned; decoded is no field of
\* it: it says whether decodeRleBitPackedLevels was called.
Breakdown(pageInfo, byteLength, sizes) ==
  [ threw |-> FALSE,
    pageNumber |-> pageInfo.pageNumber,
    pageType |-> IF pageInfo.pageType = "undefined" THEN "UNKNOWN"
                 ELSE pageInfo.pageType,
    headerSize |-> pageInfo.headerSize,
    repetitionLevelsSize |-> sizes.repetitionLevelsSize,
    definitionLevelsSize |-> sizes.definitionLevelsSize,
    valuesSize |-> sizes.valuesSize,
    totalDataSize |-> byteLength,
    nullCount |-> sizes.nullCount,
    decoded |-> sizes.decoded ]

\* function parsePageDataSizes
parsePageDataSizes(pageInfo, uncompressedPageData, maxRepetitionLevel, maxDefinitionLevel) ==
  LET byteLength == Len(uncompressedPageData)
      allValues == [ repetitionLevelsSize |-> 0, definitionLevelsSize |-> 0,
                     valuesSize |-> byteLength, nullCount |-> None,
                     decoded |-> FALSE ]
  IN  IF IsDef(pageInfo.dataPageHeaderV2)
        THEN Breakdown(pageInfo, byteLength,
                       SizesV2(Val(pageInfo.dataPageHeaderV2), byteLength))
      ELSE IF IsDef(pageInfo.dataPageHeader)
        THEN LET v1 == SizesV1(Val(pageInfo.dataPageHeader),
                               uncompressedPageData, maxRepetitionLevel,
                               maxDefinitionLevel)
             IN  IF v1.threw THEN [threw |-> TRUE]
                 ELSE Breakdown(pageInfo, byteLength, v1)
      ELSE Breakdown(pageInfo, byteLength, allValues)

(***************************************************************************)
(* decompressPageData                                                      *)
(***************************************************************************)
Codecs == {"UNCOMPRESSED", "SNAPPY", "ZSTD", "LZ4", "GZIP"}

\* The byte contents an external decompressor may produce, by length.
Decompressed(n) == { p \in [1 .. n -> {0, 2}] : TRUE }

\* A decompressPageData that hands back the input for every codec.
decompressPageData_PassThrough(compressedData, uncompressedSize, codec) ==
  { [threw |-> FALSE, bytes |-> compressedData, buffer |-> "input",
     decompressor |-> "none"] }

\* function decompressPageData: the set of its outcomes.  A returned array
\* is its bytes and the ArrayBuffer it views: "input" is compressedData's
\* own buffer, "fresh" a new allocation.  snappyUncompress and fzstd's
\* decompress are libraries: they fill or return some bytes, or throw.
decompressPageData(compressedData, uncompressedSize, codec) ==
  IF codec = "UNCOMPRESSED"
    THEN { [threw |-> FALSE, bytes |-> compressedData, buffer |-> "input",
            decompressor |-> "none"] }
  ELSE IF codec = "SNAPPY" /\ uncompressedSize < 0
    THEN { [threw |-> TRUE, message |-> "RangeError: invalid array length"] }
  ELSE IF codec = "SNAPPY"
    THEN { [threw |-> FALSE, bytes |-> p, buffer |-> "fresh",
            decompressor |-> "snappyUncompress"] :
             p \in Decompressed(uncompressedSize) }
         \cup { [threw |-> TRUE, message |-> "snappy: invalid input"] }
  ELSE IF codec = "ZSTD"
    THEN { [threw |-> FALSE, bytes |-> p, buffer |-> "fresh",
            decompressor |-> "zstdDecompress"] :
             p \in UNION { Decompressed(n) : n \in 0 .. 2 } }
         \cup { [threw |-> TRUE, message |-> "zstd: invalid input"] }
  ELSE { [threw |-> TRUE, message |-> "not yet supported", names |-> codec] }

(***************************************************************************)
(* calculateMaxLevels                                                      *)
(***************************************************************************)
\* Lines 782-783: elementPath is a prefix of columnPath.
IsOnPath(columnPath, elementPath) ==
  /\ Len(columnPath) >= Len(elementPath)
  /\ SubSeq(columnPath, 1, Len(elementPath)) = elementPath

RECURSIVE LevelsLoop(_, _, _, _, _, _)
\* Lines 777-809: the loop over schema[i], i from the element after the
\* root (index 2 here, sequences counting from 1).
LevelsLoop(schema, columnPath, i, currentPath, maxRepetitionLevel, maxDefinitionLevel) ==
  IF i > Len(schema)
  THEN [ maxRepetitionLevel |-> maxRepetitionLevel,
         maxDefinitionLevel |-> maxDefinitionLevel ]
  ELSE LET schemaElement == schema[i]
           elementPath == IF schemaElement.name # ""
                          THEN Append(currentPath, schemaElement.name)
                          ELSE currentPath
           rep == IF schemaElement.repetition_type = "REPEATED"
                  THEN maxRepetitionLevel + 1 ELSE maxRepetitionLevel
           def == IF schemaElement.repetition_type \in {"OPTIONAL", "REPEATED"}
                  THEN maxDefinitionLevel + 1 ELSE maxDefinitionLevel
       IN  IF IsOnPath(columnPath, elementPath) \/ Len(elementPath) = 0
           THEN IF elementPath = columnPath
                THEN [ maxRepetitionLevel |-> rep, maxDefinitionLevel |-> def ]
                ELSE LevelsLoop(schema, columnPath, i + 1, elementPath, rep,
                                def)
           ELSE LevelsLoop(schema, columnPath, i + 1, currentPath,
                           maxRepetitionLevel, maxDefinitionLevel)

\* function calculateMaxLevels
calculateMaxLevels(schema, columnPath) ==
  LevelsLoop(schema, columnPath, 2, <<>>, 0, 0)

(***************************************************************************)
(* parseParquetPageIndex                                                   *)
(***************************************************************************)
\* Line 273: the message for a chunk without meta_data, for the first two
\* columns of the first two row groups.
MissingMetadataFor(colIndex, rgIndex) ==
  CASE colIndex = 0 /\ rgIndex = 0 -> "Missing metadata for column 0 in row group 0"
    [] colIndex = 1 /\ rgIndex = 0 -> "Missing metadata for column 1 in row group 0"
    [] colIndex = 0 /\ rgIndex = 1 -> "Missing metadata for column 0 in row group 1"
    [] colIndex = 1 /\ rgIndex = 1 -> "Missing metadata for column 1 in row group 1"

(***************************************************************************)
(* parseParquetPage                                                        *)
(***************************************************************************)
VARIABLES
  colMeta,        \* columnChunkMetadata.meta_data (None when missing)
  wpc,            \* position of parseParquetPage
  currentOffset,  \* let currentOffset
  endOffset,      \* const endOffset
  bufLen,         \* buffer.byteLength of the chunk read
  bufferOffset,   \* let bufferOffset (None is NaN)
  pages,          \* const pages: PageInfo[]
  pageNumber,     \* let pageNumber
  reads,          \* the readByteRange calls made, in order
  failedAt,       \* the pageNumber the catch clause warned about
  walkError,      \* the error parseParquetPage threw, "" when none
  fileHeaders,    \* the thrift structs the chunk's bytes may decode to
  maxLevels,      \* the max levels passed to parseColumnChunkPageSizes
  cpc,            \* position of parseColumnChunkPageSizes
  pageSizes,      \* const pageSizes: PageSizeBreakdown[]
  steps,          \* what each iteration of its loop did, in order
  chunkResult,    \* the list it returned (None before that, or if it threw)
  tasks,          \* the loop's iterations run as tasks of their own, by page
  chunkError,     \* the error it threw, "" when none
  fnInput,        \* the arguments of a call of an exported pure function
  fnOutput,       \* what that call returned (None before it returns)
  selectedRowGroup, \* PagesView: useState selectedRowGroup
  selectedColumn,   \* PagesView: useState selectedColumn (None is null)
  viewPages,        \* PagesView: useState pages, the list displayed
  isLoadingPages,   \* PagesView: useState isLoadingPages
  loads,            \* PagesView: the calls of loadPages, in the order started
  nodeCall,         \* parquet-parsing-node: the function being called
  npc,              \* its position
  fds,              \* the file descriptors that are open
  closed,           \* the file descriptors closeSync was called on, in order
  nodeCalls         \* how many calls have been made

walkVars ==
  <<colMeta, wpc, currentOffset, endOffset, bufLen, bufferOffset, pages,
    pageNumber, failedAt, walkError, fileHeaders>>

chunkVars == <<maxLevels, cpc, pageSizes, steps, chunkResult, tasks, chunkError>>

fnVars == <<fnInput, fnOutput>>

viewVars == <<selectedRowGroup, selectedColumn, viewPages, isLoadingPages, loads>>

nodeVars == <<nodeCall, npc, fds, closed, nodeCalls>>

\* The state of the web component and of the Node.js readers, which the
\* functions of parquet-parsing-core.ts do not touch.
hostVars == <<viewVars, nodeVars>>

vars == <<walkVars, reads, chunkVars, fnVars, hostVars>>

\* The metadata records of ordinary chunks: a data page at 6, with or without
\* a dictionary page before it at 4.
MetaInputs ==
  { [data_page_offset |-> 6, dictionary_page_offset |-> dict,
     total_compressed_size |-> t, codec |-> "UNCOMPRESSED"] :
      dict \in {None, Some(4)}, t \in 0 .. MaxChunk }

\* The metadata records of chunks at the end of the safe integer range.
RangeMetaInputs ==
  { [data_page_offset |-> d, dictionary_page_offset |-> dict,
     total_compressed_size |-> t, codec |-> "UNCOMPRESSED"] :
      d \in {MAX_SAFE_INTEGER - 1, MAX_SAFE_INTEGER, MAX_SAFE_INTEGER + 1},
      dict \in {None, Some(MAX_SAFE_INTEGER - 2), Some(MAX_SAFE_INTEGER + 1)},
      t \in (0 .. MaxChunk) \cup {MAX_SAFE_INTEGER + 1} }

Min(a, b) == IF a < b THEN a ELSE b

WalkInit(metas, headers) ==
  /\ colMeta \in {None} \cup { Some(m) : m \in metas }
  /\ fileHeaders = headers
  /\ wpc = "start"
  /\ currentOffset = 0
  /\ endOffset = 0
  /\ bufLen = None
  /\ bufferOffset = Some(0)
  /\ pages = <<>>
  /\ pageNumber = 0
  /\ reads = <<>>
  /\ failedAt = None
  /\ walkError = ""

\* No pure function is being called.
FnIdle ==
  /\ fnInput = None
  /\ fnOutput = None

\* PagesView is not mounted.
ViewIdle ==
  /\ selectedRowGroup = 0
  /\ selectedColumn = None
  /\ viewPages = <<>>
  /\ isLoadingPages = FALSE
  /\ loads = <<>>

\* No function of parquet-parsing-node.ts is being called.
NodeIdle ==
  /\ nodeCall = "none"
  /\ npc = "idle"
  /\ fds = {}
  /\ closed = <<>>
  /\ nodeCalls = 0

HostIdle == ViewIdle /\ NodeIdle

\* parseColumnChunkPageSizes is not being called.
ChunkIdle ==
  /\ maxLevels = None
  /\ cpc = "idle"
  /\ pageSizes = <<>>
  /\ steps = <<>>
  /\ chunkResult = None
  /\ tasks = <<>>
  /\ chunkError = ""

\* Lines 413-441: the metadata checks and the offsets computed from them.
StartOffset(m) ==
  IF IsDef(m.dictionary_page_offset)
  THEN Min(m.data_page_offset, Val(m.dictionary_page_offset))
  ELSE m.data_page_offset

MetaError(cm) ==
  IF ~IsDef(cm) THEN "Missing metadata for column chunk"
  ELSE IF Val(cm).data_page_offset > MAX_SAFE_INTEGER
    THEN "Data page offset exceeds JavaScript's safe integer limit"
  ELSE IF IsDef(Val(cm).dictionary_page_offset)
          /\ Val(Val(cm).dictionary_page_offset) > MAX_SAFE_INTEGER
    THEN "Dictionary page offset exceeds JavaScript's safe integer limit"
  ELSE IF Val(cm).total_compressed_size > MAX_SAFE_INTEGER
    THEN "Column chunk size exceeds JavaScript's safe integer limit"
  ELSE ""

\* Lines 413-445, up to the await of readByteRange.
WalkBegin ==
  /\ wpc = "start"
  /\ IF MetaError(colMeta) # ""
     THEN /\ wpc' = "threw"
          /\ walkError' = MetaError(colMeta)
          /\ UNCHANGED <<currentOffset, endOffset, reads>>
     ELSE /\ wpc' = "reading"
          /\ currentOffset' = StartOffset(Val(colMeta))
          /\ endOffset' = RoundDouble(StartOffset(Val(colMeta))
                                      + Val(colMeta).total_compressed_size)
          /\ reads' = Append(reads, <<StartOffset(Val(colMeta)),
                                      Val(colMeta).total_compressed_size>>)
          /\ UNCHANGED walkError
  /\ UNCHANGED <<chunkVars, fnVars>>
  /\ UNCHANGED <<fileHeaders, colMeta, bufLen, bufferOffset, pages, pageNumber, failedAt>>
  /\ UNCHANGED hostVars

\* A call on a chunk that was walked before (fnInput counts the calls and
\* fnOutput keeps what the first one read and returned): the file has not
\* changed, so readByteRange and the thrift decoder give what they gave.
Replaying == IsDef(fnInput) /\ IsDef(fnOutput) /\ Val(fnInput).call = 3

\* The lengths readByteRange may resolve with: at most the bytes asked for
\* (a range that reaches past the end of the file comes back short).
ReadLengths ==
  IF Replaying
  THEN { n \in 0 .. Val(colMeta).total_compressed_size :
           Val(fnOutput).bufLen = Some(n) }
  ELSE 0 .. Val(colMeta).total_compressed_size

\* Line 445: readByteRange resolves.
WalkRead ==
  /\ wpc = "reading"
  /\ \E n \in ReadLengths :
       bufLen' = Some(n)
  /\ wpc' = "walking"
  /\ UNCHANGED <<chunkVars, fnVars>>
  /\ UNCHANGED <<fileHeaders, colMeta, currentOffset, endOffset, bufferOffset, pages,
                 pageNumber, reads, failedAt, walkError>>
  /\ UNCHANGED hostVars

\* Line 445: readByteRange rejects; parseParquetPage rejects with it.
WalkReadFails ==
  /\ wpc = "reading"
  /\ Replaying => ~IsDef(Val(fnOutput).bufLen)
  /\ wpc' = "threw"
  /\ walkError' = "readByteRange failed"
  /\ UNCHANGED <<chunkVars, fnVars>>
  /\ UNCHANGED <<fileHeaders, colMeta, currentOffset, endOffset, bufLen, bufferOffset,
                 pages, pageNumber, reads, failedAt>>
  /\ UNCHANGED hostVars

\* Line 451: the loop condition (a comparison with NaN is false).
LoopCondition ==
  /\ IsDef(bufferOffset)
  /\ Val(bufferOffset) < Val(bufLen)
  /\ RoundDouble(currentOffset + Val(bufferOffset)) < endOffset

\* The header an earlier iteration decoded at this buffer offset, if any:
\* the buffer does not change, so decoding there again gives the same.
SeenAt(off) == { i \in 1 .. Len(pages) : pages[i].bufferOffset = off }

\* The pages an earlier call on this chunk recorded at this buffer offset.
ReplayedAt(off) ==
  IF Replaying
  THEN { p \in { Val(fnOutput).pages[i] : i \in 1 .. Len(Val(fnOutput).pages) } :
           p.bufferOffset = off }
  ELSE {}

\* An earlier call on this chunk failed to decode a header at this offset.
ReplayFailsAt(off) == Replaying /\ Val(fnOutput).failOffset = Some(off)

\* What deserializeTCompactProtocol can return at the current offset: a
\* struct and the bytes it consumed.
Decodable ==
  IF SeenAt(Val(bufferOffset)) # {}
  THEN LET p == pages[CHOOSE i \in SeenAt(Val(bufferOffset)) : TRUE]
       IN  { <<p.thrift, p.headerSize>> }
  ELSE IF ReplayedAt(Val(bufferOffset)) # {}
  THEN { <<p.thrift, p.headerSize>> : p \in ReplayedAt(Val(bufferOffset)) }
  ELSE IF ReplayFailsAt(Val(bufferOffset)) THEN {}
  ELSE { <<h, s>> \in fileHeaders \X (1 .. MaxHeaderSize) :
           s <= Val(bufLen) - Val(bufferOffset) }

\* Line 503: the next bufferOffset (NaN when compressed_page_size is
\* undefined).
NextBufferOffset(off, headerSize, compressed) ==
  IF IsDef(compressed) THEN Some(off + headerSize + Val(compressed)) ELSE None

\* Lines 451-504: one iteration that decodes a header and records the page.
WalkPage ==
  /\ wpc = "walking"
  /\ LoopCondition
  /\ Val(bufferOffset) >= 0
  /\ Len(pages) < MaxPages
  /\ \E d \in Decodable :
       LET pageHeader == parquetHeader(d[1])
           pageStartOffset == RoundDouble(currentOffset + Val(bufferOffset))
       IN  /\ pages' = Append(pages,
                 PageInfoOf(pageNumber, pageHeader, d[2], pageStartOffset,
                            Val(bufferOffset), d[1]))
           /\ bufferOffset' = NextBufferOffset(Val(bufferOffset), d[2],
                                    pageHeader.compressed_page_size)
  /\ pageNumber' = pageNumber + 1
  /\ UNCHANGED <<chunkVars, fnVars>>
  /\ UNCHANGED <<fileHeaders, colMeta, wpc, currentOffset, endOffset, bufLen, reads,
                 failedAt, walkError>>
  /\ UNCHANGED hostVars

\* A page made up for a header that did not decode.
CatchClause_Placeholder(ps, pn) ==
  Append(ps, PageInfoOf(pn, parquetHeader(Thrift(None, None, None, None, None,
                                                 None)),
                        0, 0, 0, Thrift(None, None, None, None, None, None)))

\* Lines 505-507: the pages after the catch clause, which only warns.
CatchClause(ps, pn) == ps

\* Lines 456-461 and 505-507: new DataView throws on a negative offset, or
\* the thrift decoder throws on the bytes it finds; the catch clause warns
\* and the function returns the pages it has.
WalkDecodeFails ==
  /\ wpc = "walking"
  /\ LoopCondition
  /\ \/ Val(bufferOffset) < 0
     \/ SeenAt(Val(bufferOffset)) = {} /\ ReplayedAt(Val(bufferOffset)) = {}
  /\ failedAt' = Some(pageNumber)
  /\ pages' = CatchClause(pages, pageNumber)
  /\ wpc' = "done"
  /\ UNCHANGED <<chunkVars, fnVars>>
  /\ UNCHANGED <<fileHeaders, colMeta, currentOffset, endOffset, bufLen,
                 bufferOffset, pageNumber, reads, walkError>>
  /\ UNCHANGED hostVars

\* Lines 451 and 511: the loop condition is false; return pages.
WalkReturn ==
  /\ wpc = "walking"
  /\ ~LoopCondition
  /\ wpc' = "done"
  /\ UNCHANGED <<chunkVars, fnVars>>
  /\ UNCHANGED <<fileHeaders, colMeta, currentOffset, endOffset, bufLen, bufferOffset,
                 pages, pageNumber, reads, failedAt, walkError>>
  /\ UNCHANGED hostVars

WalkNext ==
  \/ WalkBegin
  \/ WalkRead
  \/ WalkReadFails
  \/ WalkPage
  \/ WalkDecodeFails
  \/ WalkReturn

(***************************************************************************)
(* parseColumnChunkPageSizes                                               *)
(***************************************************************************)
\* a || b on numbers that may be undefined: a unless it is undefined or 0.
OrElse(a, b) == IF IsDef(a) /\ Val(a) # 0 THEN Val(a) ELSE b

\* Lines 992-995: what readByteRange resolves with for one page payload:
\* length bytes of the file, which hold 2 everywhere (nothing for a length
\* that is not positive).
PagePayloads(length) == { [i \in 1 .. length |-> 2] }

\* A test that takes every V2 page as stored uncompressed.
IsStoredUncompressed_AnyV2(page) == IsDef(page.dataPageHeaderV2)

\* Line 1000: the page is used as it is, without decompressPageData.
IsStoredUncompressed(page) ==
  /\ IsDef(page.dataPageHeaderV2)
  /\ Val(page.dataPageHeaderV2).is_compressed = FALSE

\* A dispatch that passes the payload on when decompressPageData throws.
Uncompress_Lenient(page, compressedData, uncompressedSize, codec) ==
  { [ called |-> TRUE,
      outcome |-> [threw |-> FALSE, bytes |-> compressedData,
                   buffer |-> "input", decompressor |-> "none"] ] }

\* Lines 999-1010: the outcomes of obtaining uncompressedBytes; called says
\* whether decompressPageData was called for it.
Uncompress(page, compressedData, uncompressedSize, codec) ==
  IF IsStoredUncompressed(page)
  THEN { [ called |-> FALSE,
           outcome |-> [threw |-> FALSE, bytes |-> compressedData,
                        buffer |-> "input", decompressor |-> "none"] ] }
  ELSE { [ called |-> TRUE, outcome |-> r ] :
           r \in decompressPageData(compressedData, uncompressedSize, codec) }

\* Lines 972-983: parseParquetPage has returned (or thrown).
ChunkStart ==
  /\ cpc = "walk"
  /\ wpc \in {"done", "threw"}
  /\ IF wpc = "threw"
     THEN cpc' = "threw" /\ chunkError' = walkError
     ELSE cpc' = "loop" /\ UNCHANGED chunkError
  /\ UNCHANGED <<walkVars, reads, maxLevels, pageSizes, steps, chunkResult,
                 tasks, fnVars>>
  /\ UNCHANGED hostVars

\* The page the loop is at.
ChunkPageAt == pages[Len(steps) + 1]

\* What one iteration did.  dispatched: decompressPageData was called;
\* analyzed: parsePageDataSizes was called.
Step(page, uncompressedSize, compressedData, u, analyzed) ==
  [ pageNumber |-> page.pageNumber, dispatched |-> u.called,
    uncompressedSize |-> uncompressedSize, compressedData |-> compressedData,
    uncompressed |-> u.outcome, analyzed |-> analyzed ]

\* Lines 985-1021: one iteration of the loop, from the read of the page
\* payload to the push of its breakdown, or to the throw that ends the call.
ChunkPage ==
  /\ cpc = "loop"
  /\ Len(steps) < Len(pages)
  /\ LET page == ChunkPageAt
         compressedSize == OrElse(page.compressedSize, 0)
         uncompressedSize == OrElse(page.uncompressedSize, compressedSize)
         codec == Val(colMeta).codec
     IN  /\ reads' = Append(reads, <<page.offset + page.headerSize,
                                     compressedSize>>)
         /\ \E compressedData \in PagePayloads(compressedSize) :
            \E u \in Uncompress(page, compressedData, uncompressedSize, codec) :
              IF u.outcome.threw
              THEN /\ steps' = Append(steps,
                        Step(page, uncompressedSize, compressedData, u, FALSE))
                   /\ cpc' = "threw"
                   /\ chunkError' = u.outcome.message
                   /\ UNCHANGED pageSizes
              ELSE LET sizeBreakdown ==
                         parsePageDataSizes(page, u.outcome.bytes,
                                            Val(maxLevels).maxRepetitionLevel,
                                            Val(maxLevels).maxDefinitionLevel)
                   IN  /\ steps' = Append(steps,
                            Step(page, uncompressedSize, compressedData, u,
                                 TRUE))
                       /\ IF sizeBreakdown.threw
                          THEN /\ cpc' = "threw"
                               /\ chunkError' = "RangeError"
                               /\ UNCHANGED pageSizes
                          ELSE /\ pageSizes' = Append(pageSizes, sizeBreakdown)
                               /\ UNCHANGED <<cpc, chunkError>>
  /\ UNCHANGED <<walkVars, maxLevels, chunkResult, tasks, fnVars>>
  /\ UNCHANGED hostVars

\* Lines 992-995: readByteRange rejects.
ChunkReadFails ==
  /\ cpc = "loop"
  /\ Len(steps) < Len(pages)
  /\ reads' = Append(reads, <<ChunkPageAt.offset + ChunkPageAt.headerSize,
                              OrElse(ChunkPageAt.compressedSize, 0)>>)
  /\ cpc' = "threw"
  /\ chunkError' = "readByteRange failed"
  /\ UNCHANGED <<walkVars, maxLevels, pageSizes, steps, chunkResult, tasks,
                 fnVars>>
  /\ UNCHANGED hostVars

\* Line 1023: return pageSizes.
ChunkReturn ==
  /\ cpc = "loop"
  /\ Len(steps) = Len(pages)
  /\ cpc' = "done"
  /\ chunkResult' = Some(pageSizes)
  /\ UNCHANGED <<walkVars, reads, maxLevels, pageSizes, steps, tasks,
                 chunkError, fnVars>>
  /\ UNCHANGED hostVars

Init == WalkInit(MetaInputs, ThriftHeaders) /\ ChunkIdle /\ FnIdle /\ HostIdle

Next == WalkNext

\* parseParquetPage on ordinary chunks.
Spec == Init /\ [][Next]_vars

InitRange == WalkInit(RangeMetaInputs, ThriftHeaders) /\ ChunkIdle /\ FnIdle /\ HostIdle

\* parseParquetPage on chunks at the end of the safe integer range.
SpecRange == InitRange /\ [][Next]_vars

(***************************************************************************)
(* Three calls of parseParquetPage in a row: on a chunk, on any chunk (of  *)
(* any file), and on the first chunk again.                                *)
(***************************************************************************)
\* A pageNumber that goes on from the call before.
EntryPageNumber_Kept(previous) == previous

\* Line 434: let pageNumber = 0.
EntryPageNumber(previous) == 0

\* Two chunks of three bytes, with and without a dictionary page.
TwiceMetaInputs ==
  { [data_page_offset |-> 6, dictionary_page_offset |-> dict,
     total_compressed_size |-> 3, codec |-> "UNCOMPRESSED"] :
      dict \in {None, Some(4)} }

\* Headers of a page with a payload of one byte, of a page of no bytes (the
\* payload is as long as the header, with the other sign), and without a
\* compressed_page_size.
TwiceHeaders ==
  { Thrift(Some(0), Some(1), c, Some(ThriftV1(1)), None, None) :
      c \in {Some(1), Some(-1), None} }

\* What a call read and returned.
CallOutcome ==
  [ meta |-> colMeta, bufLen |-> bufLen, wpc |-> wpc, pages |-> pages,
    walkError |-> walkError, failedAt |-> failedAt,
    failOffset |-> IF IsDef(failedAt) THEN bufferOffset ELSE None ]

InitTwice ==
  /\ WalkInit(TwiceMetaInputs, TwiceHeaders)
  /\ ChunkIdle
  /\ fnInput = Some([call |-> 1])
  /\ fnOutput = None
  /\ HostIdle

\* Lines 409-447: parseParquetPage is called again, after the first call
\* on any chunk and after the second on the chunk of the first; its locals
\* start as the code initialises them.
WalkCallAgain ==
  /\ IsDef(fnInput)
  /\ Val(fnInput).call < 3
  /\ wpc \in {"done", "threw"}
  /\ IF Val(fnInput).call = 1
     THEN /\ fnOutput' = Some(CallOutcome)
          /\ colMeta' \in {None} \cup { Some(m) : m \in TwiceMetaInputs }
     ELSE /\ UNCHANGED fnOutput
          /\ colMeta' = Val(fnOutput).meta
  /\ fnInput' = Some([call |-> Val(fnInput).call + 1])
  /\ wpc' = "start"
  /\ pages' = <<>>
  /\ pageNumber' = EntryPageNumber(pageNumber)
  /\ bufferOffset' = Some(0)
  /\ currentOffset' = 0
  /\ endOffset' = 0
  /\ bufLen' = None
  /\ failedAt' = None
  /\ walkError' = ""
  /\ UNCHANGED <<fileHeaders, reads, chunkVars>>
  /\ UNCHANGED hostVars

NextTwice ==
  \/ WalkNext
  \/ WalkCallAgain

SpecTwice == InitTwice /\ [][NextTwice]_vars

(***************************************************************************)
(* Calls of parseColumnChunkPageSizes.                                     *)
(***************************************************************************)
\* The chunks: five bytes at 6 (room for three pages that each have a
\* payload), in the three codecs supported and one that is not.
ChunkMetaInputs ==
  { [data_page_offset |-> 6, dictionary_page_offset |-> None,
     total_compressed_size |-> 5, codec |-> c] :
      c \in Codecs \ {"GZIP"} }

\* Their page headers: a V1 page, a V1 page that lacks uncompressed_page_size,
\* a dictionary page, and V2 pages that say is_compressed = false, say
\* is_compressed = true, or do not say.
ChunkHeaders ==
  { Thrift(Some(0), Some(1), Some(1), Some(ThriftV1(1)), None, None),
    Thrift(Some(0), None, Some(2), Some(ThriftV1(1)), None, None),
    Thrift(Some(2), Some(1), Some(1), None, Some(ThriftDict(1)), None),
    Thrift(Some(3), Some(1), Some(1), None, None,
           Some(ThriftV2(1, Some(0), 0, 0, Some(FALSE)))),
    Thrift(Some(3), Some(1), Some(1), None, None,
           Some(ThriftV2(1, Some(0), 0, 0, Some(TRUE)))),
    Thrift(Some(3), Some(1), Some(1), None, None,
           Some(ThriftV2(1, None, 0, 0, None))) }

InitChunk ==
  /\ WalkInit(ChunkMetaInputs, ChunkHeaders)
  /\ maxLevels \in { Some([maxRepetitionLevel |-> l[1],
                           maxDefinitionLevel |-> l[2]]) :
                       l \in {<<0, 0>>, <<0, 1>>} }
  /\ cpc = "walk"
  /\ pageSizes = <<>>
  /\ steps = <<>>
  /\ chunkResult = None
  /\ tasks = <<>>
  /\ chunkError = ""
  /\ FnIdle
  /\ HostIdle

NextChunk ==
  \/ WalkNext
  \/ ChunkStart
  \/ ChunkPage
  \/ ChunkReadFails
  \/ ChunkReturn

SpecChunk == InitChunk /\ [][NextChunk]_vars

(***************************************************************************)
(* The iterations of the loop of parseColumnChunkPageSizes run again as    *)
(* tasks, one per page, that take their three steps in any order.          *)
(***************************************************************************)
\* A loop variable that all iterations share: every task sees the page the
\* loop ended on.
LoopBinding_Shared(ps, i) == ps[Len(ps)]

\* Line 985: for (const page of pages) binds page anew in each iteration.
LoopBinding(ps, i) == ps[i]

\* Chunks of five bytes, stored as they are or to be decompressed.
ParMetaInputs ==
  { [data_page_offset |-> 6, dictionary_page_offset |-> None,
     total_compressed_size |-> 5, codec |-> c] :
      c \in {"UNCOMPRESSED", "SNAPPY"} }

\* Their page headers: V1 pages of one and of two bytes, and a V2 page
\* that says is_compressed = false.
ParHeaders ==
  { Thrift(Some(0), Some(1), Some(1), Some(ThriftV1(1)), None, None),
    Thrift(Some(0), Some(2), Some(2), Some(ThriftV1(1)), None, None),
    Thrift(Some(3), Some(1), Some(1), None, None,
           Some(ThriftV2(1, Some(0), 0, 0, Some(FALSE)))) }

InitPar ==
  /\ WalkInit(ParMetaInputs, ParHeaders)
  /\ maxLevels = Some([maxRepetitionLevel |-> 0, maxDefinitionLevel |-> 0])
  /\ cpc = "walk"
  /\ pageSizes = <<>>
  /\ steps = <<>>
  /\ chunkResult = None
  /\ tasks = <<>>
  /\ chunkError = ""
  /\ FnIdle
  /\ HostIdle

\* A task that has not started: the PageInfo it is given, and the
\* iteration's own consts and let (lines 992, 999, 1013), not yet assigned.
NewTask(page) ==
  [ tpc |-> "read", given |-> page, compressedData |-> None,
    uncompressedBytes |-> None, sizeBreakdown |-> None ]

\* The page list is known and the sequential loop has returned: one task
\* per page is started.
ParStart ==
  /\ cpc = "done"
  /\ tasks = <<>>
  /\ pages # <<>>
  /\ tasks' = [i \in 1 .. Len(pages) |-> NewTask(pages[i])]
  /\ UNCHANGED <<walkVars, reads, maxLevels, cpc, pageSizes, steps,
                 chunkResult, chunkError, fnVars>>
  /\ UNCHANGED hostVars

\* Lines 986-995: task i reads its page's payload.
ParRead(i) ==
  /\ tasks[i].tpc = "read"
  /\ LET page == LoopBinding(pages, i)
         compressedSize == OrElse(page.compressedSize, 0)
     IN  /\ reads' = Append(reads, <<page.offset + page.headerSize,
                                     compressedSize>>)
         /\ \E compressedData \in PagePayloads(compressedSize) :
              tasks' = [tasks EXCEPT ![i].tpc = "decompress",
                                     ![i].compressedData = Some(compressedData)]
  /\ UNCHANGED <<walkVars, maxLevels, cpc, pageSizes, steps, chunkResult,
                 chunkError, fnVars>>
  /\ UNCHANGED hostVars

\* Lines 999-1010: task i obtains uncompressedBytes.  The bytes are those
\* of the sequential run, and a decompressor gives for them what it gave.
ParDecompress(i) ==
  /\ tasks[i].tpc = "decompress"
  /\ LET page == LoopBinding(pages, i)
         compressedSize == OrElse(page.compressedSize, 0)
         uncompressedSize == OrElse(page.uncompressedSize, compressedSize)
         compressedData == Val(tasks[i].compressedData)
         again == { u \in Uncompress(page, compressedData, uncompressedSize,
                                     Val(colMeta).codec) :
                      u.called => u.outcome = steps[i].uncompressed }
     IN  \E u \in again :
           /\ ~u.outcome.threw
           /\ tasks' = [tasks EXCEPT ![i].tpc = "analyze",
                                     ![i].uncompressedBytes = Some(u.outcome.bytes)]
  /\ UNCHANGED <<walkVars, reads, maxLevels, cpc, pageSizes, steps,
                 chunkResult, chunkError, fnVars>>
  /\ UNCHANGED hostVars

\* Lines 1013-1020: task i analyzes its page.
ParAnalyze(i) ==
  /\ tasks[i].tpc = "analyze"
  /\ LET page == LoopBinding(pages, i)
         sizeBreakdown ==
           parsePageDataSizes(page, Val(tasks[i].uncompressedBytes),
                              Val(maxLevels).maxRepetitionLevel,
                              Val(maxLevels).maxDefinitionLevel)
     IN  tasks' = [tasks EXCEPT ![i].tpc = "done",
                                ![i].sizeBreakdown = Some(sizeBreakdown)]
  /\ UNCHANGED <<walkVars, reads, maxLevels, cpc, pageSizes, steps,
                 chunkResult, chunkError, fnVars>>
  /\ UNCHANGED hostVars

NextPar ==
  \/ NextChunk
  \/ ParStart
  \/ \E i \in 1 .. Len(tasks) : ParRead(i)
  \/ \E i \in 1 .. Len(tasks) : ParDecompress(i)
  \/ \E i \in 1 .. Len(tasks) : ParAnalyze(i)

SpecPar == InitPar /\ [][NextPar]_vars

(***************************************************************************)
(* Calls of parsePageDataSizes.                                            *)
(***************************************************************************)
\* Largest number of bytes of run data in a level block of the inputs.
MaxLevelBytes == 2
\* Largest maxDefinitionLevel of the inputs.
MaxDefLevel == 2
\* Largest maxRepetitionLevel of the inputs.
MaxRepLevel == 1

\* Little-endian u32.
LE32(n) ==
  <<n % 256, (n \div 256) % 256, (n \div 65536) % 256, n \div 16777216>>

\* Run data: every byte string of up to MaxLevelBytes bytes over run headers
\* 0 (empty RLE run), 1 (empty bit-packed run), 2 (RLE run of one),
\* 3 (bit-packed run of eight), which are also the level values 0 .. 3.
RunData == UNION { [1 .. n -> 0 .. 3] : n \in 0 .. MaxLevelBytes }

\* A level block: a length prefix (which need not match what follows it:
\* 1019 and 1020 put the block size around the threshold) and bytes.
LevelBlocks ==
  { LE32(l) \o d : l \in {0, 1, 2, 3, 1019, 1020}, d \in RunData }

\* V1 payloads: too short for a length prefix, one level block (and values),
\* and a repetition block (empty, of one run, or declaring more bytes than
\* it has) before a definition block.
ShortPayloads == UNION { [1 .. n -> {0, 1}] : n \in 0 .. 3 }

V1Payloads ==
  ShortPayloads
    \cup LevelBlocks
    \cup { r \o LE32(l) \o d :
             r \in {LE32(0), LE32(1) \o <<2>>, LE32(6) \o <<2>>},
             l \in {2, 1020}, d \in RunData }

\* V1 pages of 1, 3 and 8 values.
V1Headers ==
  { Thrift(Some(0), Some(1), Some(1), Some(ThriftV1(nv)), None, None) :
      nv \in {1, 3, 8} }

\* V2 pages with and without num_nulls whose level lengths fit a payload or
\* not, a dictionary page, an index page, a header with no type, and a
\* header of type DICTIONARY_PAGE whose struct has a DataPageHeader.
OtherHeaders ==
  { Thrift(Some(3), Some(1), Some(1), None, None,
           Some(ThriftV2(3, nn, l[1], l[2], None))) :
      nn \in {None, Some(0), Some(2)},
      l \in {<<0, 0>>, <<2, 1>>, <<9, 0>>} }
  \cup { Thrift(Some(2), Some(1), Some(1), None, Some(ThriftDict(1)), None),
         Thrift(Some(1), Some(1), Some(1), None, None, None),
         Thrift(None, Some(1), Some(1), None, None, None),
         Thrift(Some(2), Some(1), Some(1), Some(ThriftV1(1)), None, None) }

SizesInput(t, p, r, d) ==
  [ pageInfo |-> PageInfoOf(0, parquetHeader(t), 1, 4, 0, t),
    uncompressedPageData |-> p,
    maxRepetitionLevel |-> r,
    maxDefinitionLevel |-> d ]

\* A V2 page of 2048 bytes with 64 bytes of definition levels, no repetition
\* levels and num_nulls = 7, in a flat optional column.
ScenarioD ==
  SizesInput(Thrift(Some(3), Some(2048), Some(2048), None, None,
                    Some(ThriftV2(100, Some(7), 64, 0, None))),
             [i \in 1 .. 2048 |-> 0], 0, 1)

SizesInputs ==
  { ScenarioD } \cup
  { SizesInput(t, p, r, d) :
      t \in V1Headers, p \in V1Payloads,
      r \in 0 .. MaxRepLevel, d \in 0 .. MaxDefLevel }
  \cup { SizesInput(t, p, r, d) :
           t \in OtherHeaders, p \in ShortPayloads \cup {LE32(2) \o <<2, 1>>},
           r \in 0 .. MaxRepLevel, d \in 0 .. MaxDefLevel }

InitSizes ==
  /\ WalkInit({}, {})
  /\ ChunkIdle
  /\ fnInput \in { Some(i) : i \in SizesInputs }
  /\ fnOutput = None
  /\ HostIdle

\* One call of parsePageDataSizes.
CallParsePageDataSizes ==
  /\ fnOutput = None
  /\ fnOutput' = Some(parsePageDataSizes(Val(fnInput).pageInfo,
                        Val(fnInput).uncompressedPageData,
                        Val(fnInput).maxRepetitionLevel,
                        Val(fnInput).maxDefinitionLevel))
  /\ UNCHANGED <<walkVars, reads, chunkVars, fnInput>>
  /\ UNCHANGED hostVars

SpecSizes == InitSizes /\ [][CallParsePageDataSizes]_vars

(***************************************************************************)
(* Calls of parsePageDataSizes on V1 pages whose definition levels are     *)
(* written as RLE runs.                                                    *)
(***************************************************************************)
\* Largest number of runs in a definition-level block of the inputs.
MaxRuns == 2

RECURSIVE VarInt(_)
\* The ULEB128 bytes of n.
VarInt(n) ==
  IF n < 128 THEN <<n>> ELSE <<128 + (n % 128)>> \o VarInt(n \div 128)

\* An RLE run of count values at a level of one byte: the header is
\* count << 1.
RleRun(run) == VarInt(2 * run[1]) \o <<run[2]>>

RECURSIVE RleRuns(_)
RleRuns(runs) ==
  IF runs = <<>> THEN <<>> ELSE RleRun(Head(runs)) \o RleRuns(Tail(runs))

RECURSIVE RunCountSum(_)
\* The number of values the runs stand for.
RunCountSum(runs) ==
  IF runs = <<>> THEN 0 ELSE Head(runs)[1] + RunCountSum(Tail(runs))

\* Runs of no, one, or 64 values (a two-byte header), and the two streams
\* of a thousand values: one run, and 800 values at level 1 before 200 at
\* level 0.
RunLists ==
  UNION { [1 .. n -> {0, 1, 64} \X (0 .. MaxDefLevel)] : n \in 0 .. MaxRuns }
    \cup { <<<<1000, 1>>>>, <<<<800, 1>>, <<200, 0>>>> }

\* The V1 page of these runs: an empty repetition block when the column has
\* repetition levels, the length-prefixed runs, one byte of values.
RunsInput(runs, r, d) ==
  [ pageInfo |->
      PageInfoOf(0, parquetHeader(
                      Thrift(Some(0), Some(1), Some(1),
                             Some(ThriftV1(RunCountSum(runs))), None, None)),
                 1, 4, 0,
                 Thrift(Some(0), Some(1), Some(1),
                        Some(ThriftV1(RunCountSum(runs))), None, None)),
    uncompressedPageData |->
      (IF r > 0 THEN LE32(0) ELSE <<>>)
        \o LE32(Len(RleRuns(runs))) \o RleRuns(runs) \o <<7>>,
    maxRepetitionLevel |-> r,
    maxDefinitionLevel |-> d,
    runs |-> runs ]

RunsInputs ==
  { RunsInput(runs, r, d) :
      runs \in RunLists, r \in 0 .. MaxRepLevel, d \in 1 .. MaxDefLevel }

InitRuns ==
  /\ WalkInit({}, {})
  /\ ChunkIdle
  /\ fnInput \in { Some(i) : i \in RunsInputs }
  /\ fnOutput = None
  /\ HostIdle

SpecRuns == InitRuns /\ [][CallParsePageDataSizes]_vars

(***************************************************************************)
(* Calls of decompressPageData.                                            *)
(***************************************************************************)
CodecInputs ==
  { [ compressedData |-> p, uncompressedSize |-> n, codec |-> c ] :
      p \in UNION { [1 .. k -> {0, 2}] : k \in 0 .. 2 },
      n \in -1 .. 2, c \in Codecs }

InitCodec ==
  /\ WalkInit({}, {})
  /\ ChunkIdle
  /\ fnInput \in { Some(i) : i \in CodecInputs }
  /\ fnOutput = None
  /\ HostIdle

\* One call of decompressPageData that returns or throws.
CallDecompressPageData ==
  /\ fnOutput = None
  /\ \E r \in decompressPageData(Val(fnInput).compressedData,
                                 Val(fnInput).uncompressedSize,
                                 Val(fnInput).codec) :
       fnOutput' = Some(r)
  /\ UNCHANGED <<walkVars, reads, chunkVars, fnInput>>
  /\ UNCHANGED hostVars

SpecCodec == InitCodec /\ [][CallDecompressPageData]_vars

(***************************************************************************)
(* Calls of calculateMaxLevels.  A schema is the flattened pre-order list  *)
(* of hyparquet's FileMetaData: element 1 is the root, and num_children    *)
(* tells which of the elements after a group are its fields.               *)
(***************************************************************************)
\* Largest number of elements after the root in a schema of the inputs.
MaxSchemaNodes == 3

FieldNames == {"a", "b"}
RepetitionTypes == {"REQUIRED", "OPTIONAL", "REPEATED"}

\* The depths of the elements of a pre-order list of n fields: the first is
\* a field of the root, each next one is at most one deeper than the last.
PreOrderDepths(n) ==
  { d \in [1 .. n -> 1 .. n] :
      /\ d[1] = 1
      /\ \A i \in 1 .. n - 1 : d[i + 1] <= d[i] + 1 }

\* The field at depth k on the way from the root to field i.
AncestorAt(d, i, k) ==
  CHOOSE j \in 1 .. i : d[j] = k /\ \A m \in (j + 1) .. i : d[m] > k

\* The names from the root to field i.
PathOf(d, names, i) == [k \in 1 .. d[i] |-> names[AncestorAt(d, i, k)]]

\* Field i is a group with this many fields.
NumChildren(d, i) ==
  Cardinality({ j \in (i + 1) .. Len(d) :
                  d[j] = d[i] + 1 /\ AncestorAt(d, j, d[i]) = i })

\* The schema with these fields under a REQUIRED root named "schema".
SchemaOf(d, names, reps) ==
  <<[ name |-> "schema", repetition_type |-> "REQUIRED",
      num_children |-> Cardinality({ j \in 1 .. Len(d) : d[j] = 1 }) ]>>
  \o [ i \in 1 .. Len(d) |->
         [ name |-> names[i], repetition_type |-> reps[i],
           num_children |-> NumChildren(d, i) ] ]

\* The trees of up to MaxSchemaNodes fields whose fields of one group have
\* different names: depths, names and repetition types in pre-order.
SchemaTrees ==
  { t \in UNION { PreOrderDepths(n) \X [1 .. n -> FieldNames]
                    \X [1 .. n -> RepetitionTypes] :
                    n \in 1 .. MaxSchemaNodes } :
      \A i, j \in 1 .. Len(t[1]) :
        i # j => PathOf(t[1], t[2], i) # PathOf(t[1], t[2], j) }

\* A schema and the path of one of its leaves; depths and leaf describe the
\* tree the list flattens and are no argument of the call.
LevelsInputs ==
  UNION { { [ schema |-> SchemaOf(t[1], t[2], t[3]),
              columnPath |-> PathOf(t[1], t[2], leaf),
              depths |-> t[1], leaf |-> leaf ] :
              leaf \in { i \in 1 .. Len(t[1]) : NumChildren(t[1], i) = 0 } } :
          t \in SchemaTrees }

InitLevels ==
  /\ WalkInit({}, {})
  /\ ChunkIdle
  /\ fnInput \in { Some(i) : i \in LevelsInputs }
  /\ fnOutput = None
  /\ HostIdle

\* One call of calculateMaxLevels.
CallCalculateMaxLevels ==
  /\ fnOutput = None
  /\ fnOutput' = Some(calculateMaxLevels(Val(fnInput).schema,
                                         Val(fnInput).columnPath))
  /\ UNCHANGED <<walkVars, reads, chunkVars, fnInput>>
  /\ UNCHANGED hostVars

SpecLevels == InitLevels /\ [][CallCalculateMaxLevels]_vars

(***************************************************************************)
(* Calls of decodeRleBitPackedLevels.  The view is the page payload, the   *)
(* run data are its bytes offset .. offset + length - 1, and what follows  *)
(* them are the values of the page.                                        *)
(***************************************************************************)
\* Largest number of bytes in a payload of the inputs.
MaxDecodeBytes == 3
\* Largest bit width of the inputs (but for the wide run below).
MaxBitWidth == 2

\* Bytes that are a run header (0: RLE of no value, 2: RLE of one value,
\* 3: one bit-packed group of 8), a varint byte that says another follows
\* (128, 255), or data.
DecodeBytes == {0, 2, 3, 128, 255}

\* Payloads, and ranges of run data that start inside them and end inside
\* them or one byte behind.
ByteInputs ==
  { [kind |-> "bytes", view |-> v, offset |-> o, length |-> l,
     bitWidth |-> w, numValues |-> n] :
      v \in UNION { [1 .. k -> DecodeBytes] : k \in 0 .. MaxDecodeBytes },
      o \in 0 .. 1, l \in 0 .. MaxDecodeBytes + 1, w \in 1 .. MaxBitWidth,
      n \in {0, 1, 9} }

\* One bit-packed run of 8 values that has all its bitWidth bytes, alone
\* in the payload.
PackedInput(data, w, n) ==
  [kind |-> "packed", view |-> <<3>> \o data, offset |-> 0,
   length |-> 1 + Len(data), bitWidth |-> w, numValues |-> n]

\* Such runs of every width up to MaxBitWidth + 1, of bytes with mixed
\* bits, and a run of 27-bit values (maxLevel = 2^26) of bytes 255.
PackedInputs ==
  { PackedInput(d, Len(d), n) :
      d \in UNION { [1 .. w -> {181, 78}] : w \in 1 .. MaxBitWidth + 1 },
      n \in {3, 8, 9} }
  \cup { PackedInput([i \in 1 .. 27 |-> 255], 27, 8) }

DecodeInputs ==
  { in \in ByteInputs : in.offset <= Len(in.view)
                        /\ in.offset + in.length <= Len(in.view) + 1 }
  \cup PackedInputs

InitDecode ==
  /\ WalkInit({}, {})
  /\ ChunkIdle
  /\ fnInput \in { Some(i) : i \in DecodeInputs }
  /\ fnOutput = None
  /\ HostIdle

\* One call of decodeRleBitPackedLevels that returns or throws.
CallDecodeRleBitPackedLevels ==
  /\ fnOutput = None
  /\ fnOutput' = Some(decodeRleBitPackedLevels(Val(fnInput).view,
                        Val(fnInput).offset, Val(fnInput).length,
                        Val(fnInput).bitWidth, Val(fnInput).numValues))
  /\ UNCHANGED <<walkVars, reads, chunkVars, fnInput>>
  /\ UNCHANGED hostVars

SpecDecode == InitDecode /\ [][CallDecodeRleBitPackedLevels]_vars

(***************************************************************************)
(* PagesView (webapp/src/components/PagesView.tsx): the selection of a     *)
(* column chunk and the loads of its pages.                                *)
(***************************************************************************)
\* The selection changes at most this many times.
MaxLoads == 3

\* The row groups of the file and the columns of each.
ViewRowGroups == 0 .. 1
ViewColumns == 0 .. 1

\* What parseParquetPage resolves with for the chunk of a column: the page
\* list of that chunk (here one page, which tells its chunk).
ParsedPagesOf(rowGroup, column) == << [rowGroup |-> rowGroup, column |-> column] >>

InitView ==
  /\ WalkInit({}, {})
  /\ ChunkIdle
  /\ FnIdle
  /\ HostIdle

\* Lines 21-28 and 34-55: the parent passes another initialRowGroup and
\* initialColumn; the selection is set, the component renders again and the
\* effect, whose dependencies have changed, calls loadPages, which runs to
\* its await.
ViewSelect(rowGroup, column) ==
  /\ Len(loads) < MaxLoads
  /\ <<rowGroup, Some(column)>> # <<selectedRowGroup, selectedColumn>>
  /\ selectedRowGroup' = rowGroup
  /\ selectedColumn' = Some(column)
  /\ isLoadingPages' = TRUE
  /\ loads' = Append(loads, [rowGroup |-> rowGroup, column |-> column,
                             lpc |-> "pending"])
  /\ UNCHANGED <<viewPages, nodeVars>>
  /\ UNCHANGED <<walkVars, reads, chunkVars, fnVars>>

\* Lines 45-46 and 50-52: the parseParquetPage of a load resolves.
LoadResolves(i) ==
  /\ loads[i].lpc = "pending"
  /\ viewPages' = ParsedPagesOf(loads[i].rowGroup, loads[i].column)
  /\ isLoadingPages' = FALSE
  /\ loads' = [loads EXCEPT ![i].lpc = "done"]
  /\ UNCHANGED <<selectedRowGroup, selectedColumn, nodeVars>>
  /\ UNCHANGED <<walkVars, reads, chunkVars, fnVars>>

\* Lines 47-52: the parseParquetPage of a load rejects.
LoadRejects(i) ==
  /\ loads[i].lpc = "pending"
  /\ viewPages' = <<>>
  /\ isLoadingPages' = FALSE
  /\ loads' = [loads EXCEPT ![i].lpc = "failed"]
  /\ UNCHANGED <<selectedRowGroup, selectedColumn, nodeVars>>
  /\ UNCHANGED <<walkVars, reads, chunkVars, fnVars>>

NextView ==
  \/ \E rowGroup \in ViewRowGroups : \E column \in ViewColumns :
       ViewSelect(rowGroup, column)
  \/ \E i \in 1 .. Len(loads) : LoadResolves(i)
  \/ \E i \in 1 .. Len(loads) : LoadRejects(i)

SpecView == InitView /\ [][NextView]_vars

(***************************************************************************)
(* parquet-parsing-node.ts: readParquetFooterFromFile and                  *)
(* readParquetPagesFromFile, called one after the other.  A descriptor is  *)
(* named by the number of the call that opened it.                         *)
(***************************************************************************)
\* The number of calls made.
MaxNodeCalls == 3

NodeFunctions == {"readParquetFooterFromFile", "readParquetPagesFromFile"}

InitNode ==
  /\ WalkInit({}, {})
  /\ ChunkIdle
  /\ FnIdle
  /\ HostIdle

\* Where a call that raises ends, and where one that goes on is next.
NodeStep(ok, next) == npc' = IF ok THEN next ELSE "threw"

\* Lines 66-67 and 81-82: one of the two functions is called and calls
\* readFooterBuffer.
NodeCallStarts(f) ==
  /\ npc \in {"idle", "returned", "threw"}
  /\ nodeCalls < MaxNodeCalls
  /\ nodeCall' = f
  /\ nodeCalls' = nodeCalls + 1
  /\ npc' = "openSync"
  /\ UNCHANGED <<fds, closed, viewVars>>
  /\ UNCHANGED <<walkVars, reads, chunkVars, fnVars>>

\* Line 39: openSync returns a descriptor or throws (no such file).
OpenSync ==
  /\ npc = "openSync"
  /\ \E ok \in BOOLEAN :
       /\ NodeStep(ok, "fstatSync")
       /\ fds' = IF ok THEN fds \cup {nodeCalls} ELSE fds
  /\ UNCHANGED <<nodeCall, closed, nodeCalls, viewVars>>
  /\ UNCHANGED <<walkVars, reads, chunkVars, fnVars>>

\* Lines 40-41: fstatSync returns the size or throws.
FstatSync ==
  /\ npc = "fstatSync"
  /\ \E ok \in BOOLEAN : NodeStep(ok, "readFooterLength")
  /\ UNCHANGED <<nodeCall, fds, closed, nodeCalls, viewVars>>
  /\ UNCHANGED <<walkVars, reads, chunkVars, fnVars>>

\* Lines 44-46: the last 8 bytes are read, or readSync throws (an I/O
\* error, or a file of fewer than 8 bytes: the position is negative).
ReadFooterLength ==
  /\ npc = "readFooterLength"
  /\ \E ok \in BOOLEAN : NodeStep(ok, "readFooter")
  /\ UNCHANGED <<nodeCall, fds, closed, nodeCalls, viewVars>>
  /\ UNCHANGED <<walkVars, reads, chunkVars, fnVars>>

\* Lines 49-57: the footer is read and readFooterBuffer returns, or
\* readSync throws (a footer length beyond the file).
ReadFooter ==
  /\ npc = "readFooter"
  /\ \E ok \in BOOLEAN : NodeStep(ok, "try")
  /\ UNCHANGED <<nodeCall, fds, closed, nodeCalls, viewVars>>
  /\ UNCHANGED <<walkVars, reads, chunkVars, fnVars>>

\* Lines 68-69 and 84-92: inside the try, the parser returns or throws.
NodeParse ==
  /\ npc = "try"
  /\ \E ok \in BOOLEAN :
       npc' = IF ok THEN "finally, then return" ELSE "finally, then throw"
  /\ UNCHANGED <<nodeCall, fds, closed, nodeCalls, viewVars>>
  /\ UNCHANGED <<walkVars, reads, chunkVars, fnVars>>

\* Lines 70-72 and 92-94: finally closeSync(fd).
NodeFinally ==
  /\ npc \in {"finally, then return", "finally, then throw"}
  /\ fds' = fds \ {nodeCalls}
  /\ closed' = Append(closed, nodeCalls)
  /\ npc' = IF npc = "finally, then return" THEN "returned" ELSE "threw"
  /\ UNCHANGED <<nodeCall, nodeCalls, viewVars>>
  /\ UNCHANGED <<walkVars, reads, chunkVars, fnVars>>

NextNode ==
  \/ \E f \in NodeFunctions : NodeCallStarts(f)
  \/ OpenSync
  \/ FstatSync
  \/ ReadFooterLength
  \/ ReadFooter
  \/ NodeParse
  \/ NodeFinally

SpecNode == InitNode /\ [][NextNode]_vars

(***************************************************************************)
(* Claims about parseParquetPage.  The list it returns is pages, in a      *)
(* state with wpc = "done".                                                *)
(***************************************************************************)
Returned == wpc = "done"

RECURSIVE SumSizes(_)
\* Sum of headerSize + compressedSize over a page list with defined sizes.
SumSizes(ps) ==
  IF ps = <<>> THEN 0
  ELSE Head(ps).headerSize + Val(Head(ps).compressedSize) + SumSizes(Tail(ps))

AllSizesDefined(ps) == \A i \in 1 .. Len(ps) : IsDef(ps[i].compressedSize)

\* C1: in every returned list the first page is at min(data_page_offset,
\* dictionary_page_offset), page offsets strictly increase, and each page
\* starts where the previous one's header and payload end.
C1_OffsetsChain ==
  Returned =>
    /\ pages # <<>> => pages[1].offset = StartOffset(Val(colMeta))
    /\ \A i \in 1 .. Len(pages) - 1 :
         /\ pages[i + 1].offset > pages[i].offset
         /\ IsDef(pages[i].compressedSize)
         /\ pages[i + 1].offset =
              pages[i].offset + pages[i].headerSize
                + Val(pages[i].compressedSize)

\* C2: in every returned list the header and payload sizes of the pages sum
\* to at most the chunk's total_compressed_size.
C2_SumWithinChunk ==
  (Returned /\ AllSizesDefined(pages)) =>
    SumSizes(pages) <= Val(colMeta).total_compressed_size

\* C3: a header that fails to decode at the k-th page boundary ends the walk
\* without an error: the function returns exactly the k pages decoded before
\* it, numbered 0 .. k-1 in list order, each the projection of a decoded
\* header, and nothing else.
C3_StopsAtDecodeFailure ==
  IsDef(failedAt) =>
    /\ wpc = "done"
    /\ walkError = ""
    /\ Len(pages) = Val(failedAt)
    /\ \A i \in 1 .. Len(pages) :
         /\ pages[i].pageNumber = i - 1
         /\ pages[i].thrift \in ThriftHeaders
         /\ pages[i].pageType = parquetHeader(pages[i].thrift).type
         /\ pages[i].compressedSize =
              parquetHeader(pages[i].thrift).compressed_page_size
         /\ pages[i].headerSize \in 1 .. MaxHeaderSize

\* C3 witness: the third header of a chunk fails to decode and the two pages
\* before it are returned.
C3_Witness ==
  /\ Returned
  /\ failedAt = Some(2)
  /\ Len(pages) = 2

\* C4: every recorded page has a pageType of the enum and defined
\* compressedSize and uncompressedSize (a header lacking them is rejected).
C4_PagesWellTyped ==
  \A i \in 1 .. Len(pages) :
    /\ pages[i].pageType \in PageTypes
    /\ IsDef(pages[i].compressedSize)
    /\ IsDef(pages[i].uncompressedSize)

(***************************************************************************)
(* Claims about parsePageDataSizes (SpecSizes) and decompressPageData      *)
(* (SpecCodec): fnInput holds the arguments, fnOutput what came back.      *)
(***************************************************************************)
SizesReturned == IsDef(fnOutput) /\ ~Val(fnOutput).threw

\* C5: every breakdown returned for a DATA_PAGE or DATA_PAGE_V2 page (its
\* header as PageInfo declares it) has repetitionLevelsSize +
\* definitionLevelsSize + valuesSize = totalDataSize, the byte length of the
\* payload, for every payload and every pair of max levels.
C5_SizesSumToTotal ==
  (SizesReturned
     /\ Val(fnInput).pageInfo.pageType \in {"DATA_PAGE", "DATA_PAGE_V2"})
  => /\ Val(fnOutput).repetitionLevelsSize + Val(fnOutput).definitionLevelsSize
          + Val(fnOutput).valuesSize = Val(fnOutput).totalDataSize
     /\ Val(fnOutput).totalDataSize = Len(Val(fnInput).uncompressedPageData)

\* C5 witness: a breakdown of a V1 page with both kinds of level blocks.
C5_Witness ==
  /\ SizesReturned
  /\ Val(fnInput).pageInfo.pageType = "DATA_PAGE"
  /\ IsDef(Val(fnInput).pageInfo.dataPageHeader)
  /\ Val(fnOutput).repetitionLevelsSize > 0
  /\ Val(fnOutput).definitionLevelsSize > 0
  /\ IsDef(Val(fnOutput).nullCount)

\* C6 as stated: a call with maxDefinitionLevel = 0 returns a breakdown
\* without nullCount, whatever the page (V1, V2 with any num_nulls,
\* dictionary, other).
C6_NoNullCountWithoutDefinitionLevels ==
  (SizesReturned /\ Val(fnInput).maxDefinitionLevel = 0)
  => Val(fnOutput).nullCount = None

\* C6 amended: a call with maxDefinitionLevel = 0 returns a breakdown without
\* nullCount for every page that has no V2 header (V1, dictionary, other);
\* for a page with a V2 header nullCount is the header's num_nulls when the
\* header has one and absent when it has none.
C6_NullCountOnlyFromV2Header ==
  (SizesReturned /\ Val(fnInput).maxDefinitionLevel = 0)
  => IF IsDef(Val(fnInput).pageInfo.thrift.field_8)
     THEN Val(fnOutput).nullCount
            = Val(Val(fnInput).pageInfo.thrift.field_8).field_2
     ELSE Val(fnOutput).nullCount = None

\* C6 witness: with maxDefinitionLevel = 0 the breakdown of a V2 page whose
\* header says num_nulls = 0 has nullCount 0.
C6_Witness ==
  /\ SizesReturned
  /\ Val(fnInput).maxDefinitionLevel = 0
  /\ IsDef(Val(fnInput).pageInfo.dataPageHeaderV2)
  /\ Val(Val(fnInput).pageInfo.thrift.field_8).field_2 = Some(0)
  /\ Val(fnOutput).nullCount = Some(0)

SupportedCodecs == {"UNCOMPRESSED", "SNAPPY", "ZSTD"}

\* C8: decompressPageData returns its input (the same bytes in the same
\* buffer) exactly when codec is UNCOMPRESSED, and for a codec outside
\* UNCOMPRESSED, SNAPPY, ZSTD it throws an error naming the codec and
\* returns nothing.
C8_PassThroughOnlyUncompressed ==
  IsDef(fnOutput) =>
    LET in == Val(fnInput)
        r == Val(fnOutput)
    IN  /\ ( /\ ~r.threw
             /\ r.buffer = "input"
             /\ r.bytes = in.compressedData ) <=> (in.codec = "UNCOMPRESSED")
        /\ in.codec \notin SupportedCodecs =>
             /\ r.threw
             /\ r.message = "not yet supported"
             /\ r.names = in.codec

\* C8 witness: a call with codec LZ4 and a non-empty input has thrown.
C8_Witness ==
  /\ IsDef(fnOutput)
  /\ Val(fnInput).codec = "LZ4"
  /\ Val(fnInput).compressedData # <<>>
  /\ Val(fnOutput).threw

(***************************************************************************)
(* Claims about parseColumnChunkPageSizes (SpecChunk): steps[i] is what    *)
(* the loop did with pages[i].                                             *)
(***************************************************************************)
\* The struct decoded for the page has a field_8 whose field_7 is false.
SaysUncompressed(page) ==
  /\ IsDef(page.thrift.field_8)
  /\ Val(page.thrift.field_8).field_7 = Some(FALSE)

\* C7: a page's payload is used as read, without a call of
\* decompressPageData, exactly when its header is a V2 header with
\* is_compressed false, whatever the column codec; a V2 header without
\* is_compressed is decoded as is_compressed = true, and that page, like
\* every V1 and dictionary page, goes to decompressPageData with the column
\* codec.
C7_BypassOnlyV2Uncompressed ==
  \A i \in 1 .. Len(steps) :
    LET st == steps[i]
        page == pages[i]
    IN  /\ ~st.dispatched <=> SaysUncompressed(page)
        /\ ~st.dispatched =>
             /\ ~st.uncompressed.threw
             /\ st.uncompressed.bytes = st.compressedData
             /\ st.uncompressed.buffer = "input"
             /\ st.uncompressed.decompressor = "none"
        /\ st.dispatched =>
             st.uncompressed \in decompressPageData(st.compressedData,
                                   st.uncompressedSize, Val(colMeta).codec)
        /\ ( /\ IsDef(page.thrift.field_8)
             /\ Val(page.thrift.field_8).field_7 = None ) =>
             /\ Val(page.dataPageHeaderV2).is_compressed = TRUE
             /\ st.dispatched

\* C7 witness: in a ZSTD column a V2 page with is_compressed false was used
\* as read and a V2 page without is_compressed was decompressed by zstd.
C7_Witness ==
  /\ IsDef(colMeta)
  /\ Val(colMeta).codec = "ZSTD"
  /\ \E i, j \in 1 .. Len(steps) :
       /\ ~steps[i].dispatched
       /\ steps[i].analyzed
       /\ steps[j].dispatched
       /\ IsDef(pages[j].thrift.field_8)
       /\ Val(pages[j].thrift.field_8).field_7 = None
       /\ ~steps[j].uncompressed.threw
       /\ steps[j].uncompressed.decompressor = "zstdDecompress"

\* C9: when the column codec is outside UNCOMPRESSED, SNAPPY, ZSTD, the
\* first page that needs decompression ends the call with a throw: no list
\* is returned (the breakdowns of earlier pages are lost with it), and
\* parsePageDataSizes is called neither for that page nor for a later one.
C9_UnsupportedCodecIsFatal ==
  (IsDef(colMeta) /\ Val(colMeta).codec \notin SupportedCodecs) =>
    /\ \A i \in 1 .. Len(steps) :
         ~SaysUncompressed(pages[i]) =>
           /\ i = Len(steps)
           /\ steps[i].uncompressed.threw
           /\ ~steps[i].analyzed
           /\ cpc = "threw"
           /\ chunkResult = None
    /\ Len(pageSizes) <= Len(steps)
    /\ IsDef(chunkResult) =>
         \A i \in 1 .. Len(pages) : SaysUncompressed(pages[i])

\* C9 witness: in an LZ4 column the second page needed decompression; the
\* call threw after the first page's breakdown was computed.
C9_Witness ==
  /\ IsDef(colMeta)
  /\ Val(colMeta).codec = "LZ4"
  /\ Len(steps) = 2
  /\ Len(pages) = 3
  /\ steps[1].analyzed
  /\ Len(pageSizes) = 1
  /\ steps[2].dispatched
  /\ cpc = "threw"
  /\ chunkResult = None

\* The integers beyond those a Number holds exactly (every integer up to
\* 2^SafeBits is exact).
Unsafe(x) == x > Pow2(SafeBits)

\* C10: when a metadata offset or size, the chunk end offset computed from
\* them, or a page's absolute offset exceeds the integers a Number holds
\* exactly, the call fails before any byte range is read and never goes on
\* with the inexact value.
C10_RangeCheckedBeforeRead ==
  /\ ( /\ IsDef(colMeta)
       /\ \/ Unsafe(Val(colMeta).data_page_offset)
          \/ /\ IsDef(Val(colMeta).dictionary_page_offset)
             /\ Unsafe(Val(Val(colMeta).dictionary_page_offset))
          \/ Unsafe(Val(colMeta).total_compressed_size)
          \/ Unsafe(StartOffset(Val(colMeta))
                      + Val(colMeta).total_compressed_size) )
     => (reads = <<>> /\ wpc \in {"start", "threw"})
  /\ \A i \in 1 .. Len(pages) :
       ~Unsafe(currentOffset + pages[i].bufferOffset)

(***************************************************************************)
(* Claims about calculateMaxLevels (SpecLevels).                           *)
(***************************************************************************)
\* The fields on the way from the root to the leaf of the input.
OnLeafPath(in) ==
  { AncestorAt(in.depths, in.leaf, k) : k \in 1 .. in.depths[in.leaf] }

\* C11: for a schema and the path of one of its leaves, calculateMaxLevels
\* returns the number of REPEATED fields and the number of OPTIONAL or
\* REPEATED fields among exactly the fields from the root to that leaf, also
\* when other groups of the schema have fields of the same names.
C11_LevelsOfLeafPath ==
  IsDef(fnOutput) =>
    LET in == Val(fnInput)
        onPath == OnLeafPath(in)
    IN  /\ Val(fnOutput).maxRepetitionLevel =
             Cardinality({ i \in onPath :
               in.schema[i + 1].repetition_type = "REPEATED" })
        /\ Val(fnOutput).maxDefinitionLevel =
             Cardinality({ i \in onPath :
               in.schema[i + 1].repetition_type \in {"OPTIONAL", "REPEATED"} })

(***************************************************************************)
(* Claims about the null count of V1 pages.                                *)
(***************************************************************************)
RECURSIVE NullsOfRuns(_, _)
\* The values of the runs at a level below maxDefinitionLevel.
NullsOfRuns(runs, maxDefinitionLevel) ==
  IF runs = <<>> THEN 0
  ELSE (IF Head(runs)[2] < maxDefinitionLevel THEN Head(runs)[1] ELSE 0)
         + NullsOfRuns(Tail(runs), maxDefinitionLevel)

V1Call ==
  /\ IsDef(fnOutput)
  /\ ~IsDef(Val(fnInput).pageInfo.dataPageHeaderV2)
  /\ IsDef(Val(fnInput).pageInfo.dataPageHeader)

\* The repetition-level block of the input, as the V1 branch measures it.
RepBlock(in) ==
  readRleBitPackedLevelSize(in.uncompressedPageData, 0, in.maxRepetitionLevel)

\* The definition-level block that follows a repetition block of this size.
DefBlock(in, repSize) ==
  readRleBitPackedLevelSize(in.uncompressedPageData, repSize,
                            in.maxDefinitionLevel)

\* The payload with every byte from offset from on replaced by another.
Overwritten(payload, from) ==
  [ i \in 1 .. Len(payload) |->
      IF i <= from THEN payload[i] ELSE 255 - payload[i] ]

TruncatedLevels(in, repSize, defSize) ==
  LET view == in.uncompressedPageData
      numValues == Val(Val(in.pageInfo.dataPageHeader).num_values)
      dec == decodeRleBitPackedLevels(view, repSize + 4,
               GetUint32(view, repSize), BitWidth(in.maxDefinitionLevel),
               numValues)
  IN  dec.threw \/ Len(dec.result) < numValues

\* C14: for a V1 page whose definition-level stream is corrupt (here: it
\* stops short of num_values levels) parsePageDataSizes does not fail: it
\* returns the breakdown with the sizes it reports otherwise and without
\* nullCount.
C14_CorruptLevelsGiveNoNullCount ==
  (V1Call /\ Val(fnInput).maxDefinitionLevel > 0 /\ ~RepBlock(Val(fnInput)).threw)
  => LET in == Val(fnInput)
         repSize == RepBlock(in).size
         def == DefBlock(in, repSize)
     IN  ( /\ ~def.threw
           /\ DecodesLevels(def.size)
           /\ TruncatedLevels(in, repSize, def.size) )
         => /\ ~Val(fnOutput).threw
            /\ Val(fnOutput).repetitionLevelsSize = repSize
            /\ Val(fnOutput).definitionLevelsSize = def.size
            /\ Val(fnOutput).valuesSize
                 = Len(in.uncompressedPageData) - repSize - def.size
            /\ Val(fnOutput).nullCount = None

(***************************************************************************)
(* Claims about the V2, dictionary and other branches of                   *)
(* parsePageDataSizes (SpecSizes).                                         *)
(***************************************************************************)
\* A call on a page that takes the V2 branch.
V2Call ==
  /\ IsDef(fnOutput)
  /\ IsDef(Val(fnInput).pageInfo.dataPageHeaderV2)

\* C15: for a page with a V2 header the breakdown has the header's
\* repetition and definition byte lengths, valuesSize = payload length minus
\* both, nullCount = the header's num_nulls when it has one, and is the same
\* for every payload of that length.
C15_V2SizesFromHeader ==
  V2Call =>
    LET in == Val(fnInput)
        v2 == Val(in.pageInfo.thrift.field_8)
        out == Val(fnOutput)
    IN  /\ ~out.threw
        /\ out.repetitionLevelsSize = Val(v2.field_6)
        /\ out.definitionLevelsSize = Val(v2.field_5)
        /\ out.valuesSize
             = Len(in.uncompressedPageData) - Val(v2.field_6) - Val(v2.field_5)
        /\ out.nullCount = v2.field_2
        /\ ~out.decoded
        /\ parsePageDataSizes(in.pageInfo, Overwritten(in.uncompressedPageData, 0),
                              in.maxRepetitionLevel, in.maxDefinitionLevel)
           = out

\* C15 witness: 64 bytes of definition levels, none of repetition levels, a
\* payload of 2048 bytes and num_nulls = 7 give values = 1984, nullCount = 7.
C15_Witness ==
  /\ V2Call
  /\ Len(Val(fnInput).uncompressedPageData) = 2048
  /\ Val(fnOutput).repetitionLevelsSize = 0
  /\ Val(fnOutput).definitionLevelsSize = 64
  /\ Val(fnOutput).valuesSize = 1984
  /\ Val(fnOutput).nullCount = Some(7)

\* C16: for a page whose pageType is DICTIONARY_PAGE, and for a page with
\* none of the three header variants, the breakdown has no level bytes,
\* valuesSize = totalDataSize and no nullCount, whatever the max levels and
\* the payload.
C16_DictionaryAndOtherAllValues ==
  ( /\ IsDef(fnOutput)
    /\ \/ Val(fnInput).pageInfo.pageType = "DICTIONARY_PAGE"
       \/ /\ ~IsDef(Val(fnInput).pageInfo.dataPageHeader)
          /\ ~IsDef(Val(fnInput).pageInfo.dataPageHeaderV2)
          /\ ~IsDef(Val(fnInput).pageInfo.dictionaryPageHeader) )
  => /\ ~Val(fnOutput).threw
     /\ Val(fnOutput).repetitionLevelsSize = 0
     /\ Val(fnOutput).definitionLevelsSize = 0
     /\ Val(fnOutput).valuesSize = Val(fnOutput).totalDataSize
     /\ Val(fnOutput).totalDataSize = Len(Val(fnInput).uncompressedPageData)
     /\ Val(fnOutput).nullCount = None

(***************************************************************************)
(* Claims about chunks without a metadata record (SpecChunk).              *)
(***************************************************************************)
\* The message tells a row group and a column.
NamesRowGroupAndColumn(message) ==
  message \in { MissingMetadataFor(c, r) : c \in 0 .. 1, r \in 0 .. 1 }

\* C17: given a chunk without its metadata record, parseParquetPage and
\* parseColumnChunkPageSizes fail before any byte range is read, with an
\* error that names the row group and the column of the chunk.
C17_MissingMetadataNamesChunk ==
  (~IsDef(colMeta) /\ wpc # "start") =>
    /\ wpc = "threw"
    /\ reads = <<>>
    /\ NamesRowGroupAndColumn(walkError)
    /\ cpc # "walk" => (cpc = "threw" /\ NamesRowGroupAndColumn(chunkError))

(***************************************************************************)
(* Claims about the header variant of a recorded page (Spec).              *)
(***************************************************************************)
\* The header variants the page carries, by the pageType each goes with.
VariantsOf(page) ==
  (IF IsDef(page.dataPageHeader) THEN {"DATA_PAGE"} ELSE {})
    \cup (IF IsDef(page.dataPageHeaderV2) THEN {"DATA_PAGE_V2"} ELSE {})
    \cup (IF IsDef(page.dictionaryPageHeader) THEN {"DICTIONARY_PAGE"} ELSE {})

\* C18: every recorded page carries exactly one of dataPageHeader,
\* dataPageHeaderV2 and dictionaryPageHeader, the one its pageType names.
C18_ExactlyOneVariant ==
  \A i \in 1 .. Len(pages) : VariantsOf(pages[i]) = {pages[i].pageType}

(***************************************************************************)
(* Claims about repeated calls (SpecTwice).                                *)
(***************************************************************************)
\* The second call on the first chunk has ended.
ReplayEnded == Replaying /\ wpc \in {"done", "threw"}

Decoded == IsDef(fnOutput) /\ ~Val(fnOutput).threw

\* The number of levels that the run data view[cur .. endOff - 1] hold: a
\* bit-packed run holds the values whose bits are all there, an RLE run
\* its count when its value bytes are there.
RECURSIVE LevelsHeld(_, _, _, _)
LevelsHeld(view, cur, endOff, bitWidth) ==
  IF cur >= endOff THEN 0
  ELSE LET h == readVarInt(view, cur)
       IN  IF h.threw THEN 0
           ELSE IF h.offset > endOff \/ h.value < 0 THEN 0
           ELSE LET avail == endOff - h.offset
                    groups == h.value \div 2
                    byteWidth == (bitWidth + 7) \div 8
                IN  IF h.value % 2 = 1
                    THEN IF avail >= groups * bitWidth /\ groups > 0
                         THEN 8 * groups
                                + LevelsHeld(view, h.offset + groups * bitWidth,
                                             endOff, bitWidth)
                         ELSE (8 * avail) \div bitWidth
                    ELSE IF avail >= byteWidth /\ groups > 0
                         THEN groups + LevelsHeld(view, h.offset + byteWidth,
                                                  endOff, bitWidth)
                         ELSE 0

\* C21: decodeRleBitPackedLevels returns at most numValues levels, and no
\* level beyond those the run data hold: it emits nothing for a bit-packed
\* run whose bytes ran out or an RLE run whose value bytes are missing.
C21_StopsAtCountOrEndOfData ==
  Decoded =>
    LET in == Val(fnInput)
    IN  /\ Len(Val(fnOutput).result) <= in.numValues
        /\ Len(Val(fnOutput).result)
             <= LevelsHeld(in.view, in.offset, in.offset + in.length,
                           in.bitWidth)

(***************************************************************************)
(* Claims about the sizes of a V1 page (SpecSizes).                        *)
(***************************************************************************)
\* The little-endian u32 at a 0-based offset of a payload.
U32At(payload, off) ==
  payload[off + 1] + 256 * payload[off + 2] + 65536 * payload[off + 3]
    + 16777216 * payload[off + 4]

\* A call that returned, on a page that carries a V1 header and no other.
V1OnlyReturned ==
  /\ SizesReturned
  /\ IsDef(Val(fnInput).pageInfo.dataPageHeader)
  /\ ~IsDef(Val(fnInput).pageInfo.dataPageHeaderV2)
  /\ ~IsDef(Val(fnInput).pageInfo.dictionaryPageHeader)

BitAt(bytes, k) == (bytes[(k \div 8) + 1] \div Pow2(k % 8)) % 2

\* The number that bits from .. from + width - 1 of a byte string spell.
RECURSIVE BitsOf(_, _, _)
BitsOf(bytes, from, width) ==
  IF width = 0 THEN 0
  ELSE BitAt(bytes, from) + 2 * BitsOf(bytes, from + 1, width - 1)

\* A call on one bit-packed run that has all its bytes has returned.
PackedDecoded == IsDef(fnOutput) /\ Val(fnInput).kind = "packed"

\* C23: a bit-packed run of header h and width w yields (h >> 1) * 8
\* values, cut at numValues, and value i is bits i*w .. (i+1)*w - 1 of the
\* run's bytes, least significant bit first, for every width: no bit is
\* dropped from the accumulator.
C23_BitPackedValuesAreTheBits ==
  PackedDecoded =>
    LET in == Val(fnInput)
        data == SubSeq(in.view, 2, Len(in.view))
        n == IF in.numValues < 8 THEN in.numValues ELSE 8
    IN  /\ ~Val(fnOutput).threw
        /\ Val(fnOutput).result =
             [i \in 1 .. n |-> BitsOf(data, (i - 1) * in.bitWidth, in.bitWidth)]

(***************************************************************************)
(* Claims about the end of the walk (Spec).                                *)
(***************************************************************************)
\* C24: parseParquetPage terminates on every buffer: each iteration moves
\* the cursor forward, so the walk never decodes a page at a buffer offset
\* where it has decoded one before (from where, the buffer being the same,
\* it would go round again without end).
C24_WalkNeverComesBack ==
  \A i \in 1 .. Len(pages) : \A j \in 1 .. Len(pages) :
    i < j => pages[i].bufferOffset < pages[j].bufferOffset

(***************************************************************************)
(* Claims about the limits of what parsePageDataSizes and the decoder      *)
(* report and read (SpecSizes, SpecDecode).                                *)
(***************************************************************************)
\* A size that is a part of a payload of total bytes.
WithinPayload(size, total) == size >= 0 /\ size <= total

\* C25: in every PageSizeBreakdown returned, repetitionLevelsSize,
\* definitionLevelsSize and valuesSize are each between 0 and
\* totalDataSize, whatever lengths the payload or the header declare.
C25_SizesWithinPayload ==
  SizesReturned =>
    /\ WithinPayload(Val(fnOutput).repetitionLevelsSize, Val(fnOutput).totalDataSize)
    /\ WithinPayload(Val(fnOutput).definitionLevelsSize, Val(fnOutput).totalDataSize)
    /\ WithinPayload(Val(fnOutput).valuesSize, Val(fnOutput).totalDataSize)

\* The levels the V1 branch decodes for an input whose breakdown is out.
LevelsDecodedFor(in, out) ==
  decodeRleBitPackedLevels(in.uncompressedPageData,
                           out.repetitionLevelsSize + 4,
                           U32At(in.uncompressedPageData, out.repetitionLevelsSize),
                           BitWidth(in.maxDefinitionLevel),
                           Val(Val(in.pageInfo.dataPageHeader).num_values))

\* C26: a V1 page gets a nullCount only when its definition-level stream
\* gave exactly num_values levels: the count is over those and is at most
\* num_values, never a count over fewer levels.
C26_NullCountOverAllLevels ==
  (V1OnlyReturned /\ IsDef(Val(fnOutput).nullCount)) =>
    LET in == Val(fnInput)
        levels == LevelsDecodedFor(in, Val(fnOutput))
        numValues == Val(Val(in.pageInfo.dataPageHeader).num_values)
    IN  /\ ~levels.threw
        /\ Len(levels.result) = numValues
        /\ Val(Val(fnOutput).nullCount) <= numValues
        /\ Val(Val(fnOutput).nullCount) =
             Cardinality({ i \in 1 .. Len(levels.result) :
                             levels.result[i] < in.maxDefinitionLevel })

\* C27: decodeRleBitPackedLevels reads no byte outside the run data
\* view[offset .. offset + length - 1]: when it returns, the byte after the
\* last one it read is at most offset + length.
C27_ReadsInsideRunData ==
  Decoded => Val(fnOutput).offset <= Val(fnInput).offset + Val(fnInput).length

\* C28: parsePageDataSizes returns a breakdown for every payload of a V1
\* page, also one too short for a length prefix it has to read.
C28_V1NeverRaises ==
  V1Call => ~Val(fnOutput).threw

(***************************************************************************)
(* Claims about PagesView (SpecView).                                      *)
(***************************************************************************)
\* The loads that have not completed.
InFlight == { i \in 1 .. Len(loads) : loads[i].lpc = "pending" }

\* C29: once every load started has completed, the list displayed is the
\* one parsed for the column selected now (the empty list if that load
\* failed), and isLoadingPages is false only when no load is in flight.
C29_ShowsSelectedColumn ==
  /\ (loads # <<>> /\ InFlight = {}) =>
       LET last == loads[Len(loads)]
       IN  /\ <<last.rowGroup, Some(last.column)>>
                = <<selectedRowGroup, selectedColumn>>
           /\ viewPages = IF last.lpc = "done"
                          THEN ParsedPagesOf(selectedRowGroup, Val(selectedColumn))
                          ELSE <<>>
  /\ ~isLoadingPages => InFlight = {}

(***************************************************************************)
(* Claims about the file descriptors of parquet-parsing-node.ts            *)
(* (SpecNode).                                                             *)
(***************************************************************************)
\* No call is running.
NodeCallEnded == npc \in {"returned", "threw"}

\* C30: when a call of readParquetFooterFromFile or
\* readParquetPagesFromFile has returned or raised, no descriptor it
\* opened is open, and none was closed twice.
C30_DescriptorsClosedOnce ==
  NodeCallEnded =>
    /\ fds = {}
    /\ \A i \in 1 .. Len(closed) : \A j \in 1 .. Len(closed) :
         closed[i] = closed[j] => i = j

=============================================================================
